---- MODULE Spec2Model ----
(***************************************************************************)
(* A model of mcp_generator: the naming engine (utils.sanitize_name), the  *)
(* per-group module generation (renderers.generate_server_module), the    *)
(* security extraction (introspection.get_security_config), the module    *)
(* composer (generator.generate_main_composition_server), the generator   *)
(* run (cli.main) and the main() / _import_subservers_once code that the  *)
(* composer emits.                                                         *)
(*                                                                         *)
(* A Python str is a sequence of one-character strings, so that length,   *)
(* prefix, substring, case and replacement are computed as the code       *)
(* computes them.                                                          *)
(***************************************************************************)
EXTENDS Integers, Sequences, FiniteSets, TLC

VARIABLES
    \* ---- naming engine and module generation
    TOOL_NAME_OVERRIDES,       \* config.TOOL_NAME_OVERRIDES: sequence of <<raw name, tool name>>
    TOOL_NAME_ABBREVIATIONS,   \* config.TOOL_NAME_ABBREVIATIONS: sequence of <<long form, short form>>
    api_class,                 \* dir(api_class): sorted sequence of [name, callable]
    module_spec,               \* result of generate_server_module, or none yet
    renamed,                   \* result of sanitize_name on an emitted tool name, or none yet
    naming_log,                \* diagnostics the generator printed about tool names
    \* ---- module composer
    modules,                   \* dict[str, ModuleSpec] in insertion order: sequence of ModuleSpec
    security_config,           \* SecurityConfig handed to the composer
    composition_strategy,      \* "mount", "import", or another configured string
    composed,                  \* outcome of generate_main_composition_server, or none yet
    \* ---- a run of the emitted server module
    server,                    \* the state of one run of the emitted main()
    \* ---- security extraction
    openapi_file,              \* the API description file found in base_dir
    security_result,           \* outcome of get_security_config, or none yet
    \* ---- one run of the generator's command line
    fastmcp_json,              \* generated_mcp/fastmcp.json as the run finds it
    cli,                       \* position of cli.main, what it wrote, its exit code
    \* ---- resource templates
    resource_endpoint,         \* one endpoint as get_resource_endpoints describes it
    resource_spec,             \* outcome of generate_resource_for_endpoint, or none yet
    resource_code,             \* what render_resource made of the spec, or none yet
    \* ---- API metadata
    client_package,            \* the generated openapi_client package as the import finds it
    api_metadata,              \* outcome of get_api_metadata, or none yet
    \* ---- the local server registry
    environ,                   \* os.environ: MCP_REGISTRY_PATH and XDG_DATA_HOME
    registry_files,            \* the registry file at each path
    registry_op,               \* the last register-mcp / run-mcp command and its exit status
    registry_ops,              \* number of commands so far
    \* ---- the generated cache module
    cache_backend,             \* "memory" (InMemoryStorage) or "filesystem" (FilesystemStorage)
    cache_store,               \* the storage: cache key -> cache entry
    cache_now,                 \* datetime.now(timezone.utc), in seconds
    cache_calls,               \* per tool name and arguments: the most recent set still in force
    cache_result,              \* the last cache operation and what it returned
    cache_ops,                 \* number of cache operations so far
    fn_return,                 \* what the function decorated with cached() returns
    decorator_ttl,             \* the ttl given to cached()
    fn_executions,             \* how often the decorated function was executed
    wrapper_call,              \* the last call of the decorated function
    \* ---- a call of a rendered tool or resource function
    handler_kind,              \* "tool" or "resource"
    ctx_state,                 \* what ctx.get_state('openapi_client') returns
    api_behaviour,             \* what the API operation does when it is invoked
    handler,                   \* the call: its position, what it read, invoked, returned or raised
    \* ---- generation of the modules of a client package
    api_package,               \* the classes of the openapi_client package: name and attributes
    modular                    \* what generate_modular_servers returned: servers, total_tools

namingVars == <<TOOL_NAME_OVERRIDES, TOOL_NAME_ABBREVIATIONS, api_class, module_spec,
                renamed, naming_log>>

composeVars == <<modules, security_config, composition_strategy, composed, server>>

securityVars == <<openapi_file, security_result>>

cliVars == <<fastmcp_json, cli>>

resourceVars == <<resource_endpoint, resource_spec, resource_code>>

metadataVars == <<client_package, api_metadata>>

registryVars == <<environ, registry_files, registry_op, registry_ops>>

cacheVars == <<cache_backend, cache_store, cache_now, cache_calls, cache_result, cache_ops, fn_return, decorator_ttl, fn_executions, wrapper_call>>

handlerVars == <<handler_kind, ctx_state, api_behaviour, handler>>

modularVars == <<api_package, modular>>

vars == <<namingVars, composeVars, securityVars, cliVars, resourceVars, metadataVars, registryVars, cacheVars, handlerVars, modularVars>>

\* What the actions of one part leave alone
otherThanNaming   == <<composeVars, securityVars, cliVars, resourceVars, metadataVars, registryVars, cacheVars, handlerVars, modularVars>>
otherThanCompose  == <<namingVars, securityVars, cliVars, resourceVars, metadataVars, registryVars, cacheVars, handlerVars, modularVars>>
otherThanSecurity == <<namingVars, composeVars, cliVars, resourceVars, metadataVars, registryVars, cacheVars, handlerVars, modularVars>>
otherThanResource == <<namingVars, composeVars, securityVars, cliVars, metadataVars, registryVars, cacheVars, handlerVars, modularVars>>
otherThanMetadata == <<namingVars, composeVars, securityVars, cliVars, resourceVars, registryVars, cacheVars, handlerVars, modularVars>>
otherThanRegistry == <<namingVars, composeVars, securityVars, cliVars, resourceVars, metadataVars, cacheVars, handlerVars, modularVars>>
otherThanCache == <<namingVars, composeVars, securityVars, cliVars, resourceVars, metadataVars, registryVars, handlerVars, modularVars>>
otherThanHandler == <<namingVars, composeVars, securityVars, cliVars, resourceVars, metadataVars, registryVars, cacheVars, modularVars>>
otherThanModular == <<namingVars, composeVars, securityVars, cliVars, resourceVars, metadataVars, registryVars, cacheVars, handlerVars>>

\* A result that was not computed yet.
NoModule  == [generated |-> FALSE, tools |-> <<>>, tool_count |-> 0]
NoRenamed == [done |-> FALSE, name |-> <<>>, result |-> <<>>]

(***************************************************************************)
(* Characters and strings                                                  *)
(***************************************************************************)

\* The ASCII characters of identifiers, file names and scope names, in code point order.
Chars ==
    << " ", ",", "-", ".", "/",
       "0", "1", "2", "3", "4", "5", "6", "7", "8", "9",
       ":", "?",
       "A", "B", "C", "D", "E", "F", "G", "H", "I", "J", "K", "L", "M",
       "N", "O", "P", "Q", "R", "S", "T", "U", "V", "W", "X", "Y", "Z",
       "[", "]", "_",
       "a", "b", "c", "d", "e", "f", "g", "h", "i", "j", "k", "l", "m",
       "n", "o", "p", "q", "r", "s", "t", "u", "v", "w", "x", "y", "z",
       "{", "|", "}" >>

Ord(c) == CHOOSE i \in 1..Len(Chars) : Chars[i] = c

IsDigit(c) == Ord(c) >= Ord("0") /\ Ord(c) <= Ord("9")
IsUpper(c) == Ord(c) >= Ord("A") /\ Ord(c) <= Ord("Z")
IsLower(c) == Ord(c) >= Ord("a") /\ Ord(c) <= Ord("z")

\* str.lower() on one character
LowerChar(c) == IF IsUpper(c) THEN Chars[Ord(c) - Ord("A") + Ord("a")] ELSE c

\* str.lower()
Lower(s) == [i \in 1..Len(s) |-> LowerChar(s[i])]

\* str.startswith(prefix)
StartsWith(s, prefix) ==
    /\ Len(prefix) <= Len(s)
    /\ SubSeq(s, 1, Len(prefix)) = prefix

\* `sub in s`
Contains(s, sub) ==
    \E i \in 1..(Len(s) - Len(sub) + 1) : SubSeq(s, i, i + Len(sub) - 1) = sub

\* str.replace(long_form, short_form): every non-overlapping occurrence, left to right.
RECURSIVE Replace(_, _, _)
Replace(s, long_form, short_form) ==
    IF Len(s) < Len(long_form) THEN s
    ELSE IF SubSeq(s, 1, Len(long_form)) = long_form
         THEN short_form \o Replace(SubSeq(s, Len(long_form) + 1, Len(s)), long_form, short_form)
         ELSE <<Head(s)>> \o Replace(Tail(s), long_form, short_form)

\* The order of Python str comparison (code points, then length).
RECURSIVE StrLess(_, _)
StrLess(a, b) ==
    IF a = <<>> THEN b # <<>>
    ELSE IF b = <<>> THEN FALSE
    ELSE IF Head(a) = Head(b) THEN StrLess(Tail(a), Tail(b))
    ELSE Ord(Head(a)) < Ord(Head(b))

\* sorted(S) for a set of strings
RECURSIVE Sorted(_)
Sorted(S) ==
    IF S = {} THEN <<>>
    ELSE LET least == CHOOSE x \in S : \A y \in S \ {x} : StrLess(x, y)
         IN  <<least>> \o Sorted(S \ {least})

\* n copies of the character c
RECURSIVE Repeat(_, _)
Repeat(c, n) == IF n <= 0 THEN <<>> ELSE <<c>> \o Repeat(c, n - 1)

(***************************************************************************)
(* Naming engine: utils.sanitize_name with the tables of config.py         *)
(***************************************************************************)

MAX_TOOL_NAME_LENGTH == 64

Underscore == <<"_">>
W_get      == <<"g", "e", "t">>
W_post     == <<"p", "o", "s", "t">>
W_put      == <<"p", "u", "t">>
W_delete   == <<"d", "e", "l", "e", "t", "e">>
W_patch    == <<"p", "a", "t", "c", "h">>
W_list     == <<"l", "i", "s", "t">>
W_create   == <<"c", "r", "e", "a", "t", "e">>
W_replace  == <<"r", "e", "p", "l", "a", "c", "e">>
W_update   == <<"u", "p", "d", "a", "t", "e">>
W_by       == <<"_", "b", "y", "_">>
W_with_http_info  == <<"w", "i", "t", "h", "_", "h", "t", "t", "p", "_", "i", "n", "f", "o">>
W_without_preload == <<"w", "i", "t", "h", "o", "u", "t", "_", "p", "r", "e", "l", "o", "a", "d">>

\* The alternatives of the pattern ^(get|post|put|delete|patch)_(.+)$
HttpVerbs == {W_get, W_post, W_put, W_delete, W_patch}

\* re.match(r'^(get|post|put|delete|patch)_(.+)$', name): the verb, or <<>> for no match.
\* The verbs are not prefixes of each other, so at most one alternative matches.
MatchedVerb(name) ==
    LET hits == {v \in HttpVerbs : StartsWith(name, v \o Underscore) /\ Len(name) > Len(v) + 1}
    IN  IF hits = {} THEN <<>> ELSE CHOOSE v \in hits : TRUE

verb_mapping_put_update(verb) ==
    CASE verb = W_get    -> W_list
      [] verb = W_post   -> W_create
      [] verb = W_put    -> W_update
      [] verb = W_patch  -> W_update
      [] verb = W_delete -> W_delete
      [] OTHER           -> verb

\* verb_mapping.get(verb, verb)
verb_mapping(verb) ==
    CASE verb = W_get    -> W_list
      [] verb = W_post   -> W_create
      [] verb = W_put    -> W_replace
      [] verb = W_patch  -> W_update
      [] verb = W_delete -> W_delete
      [] OTHER           -> verb

\* Step 2 of sanitize_name: the name with its HTTP verb replaced by the semantic verb.
MapVerb(name) ==
    LET verb == MatchedVerb(name)
        rest == SubSeq(name, Len(verb) + 2, Len(name))
        semantic_verb ==
            IF verb = W_get /\ ~Contains(name, W_by) THEN W_list
            ELSE IF verb = W_get /\ Contains(name, W_by) THEN W_get
            ELSE verb_mapping(verb)
    IN  IF verb = <<>> THEN name ELSE semantic_verb \o Underscore \o rest

\* re.sub(r'([a-z0-9])([A-Z])', r'\1_\2', name): matches do not overlap, the scan
\* goes on after the upper-case letter of a match.
RECURSIVE CamelSub(_)
CamelSub(s) ==
    IF Len(s) < 2 THEN s
    ELSE IF (IsLower(s[1]) \/ IsDigit(s[1])) /\ IsUpper(s[2])
         THEN <<s[1], "_", s[2]>> \o CamelSub(SubSeq(s, 3, Len(s)))
         ELSE <<s[1]>> \o CamelSub(Tail(s))

\* utils.camel_to_snake, and the same two lines inside sanitize_name
camel_to_snake(name) == Lower(CamelSub(name))

\* Step 3 of sanitize_name: the loop over TOOL_NAME_ABBREVIATIONS.items() from entry i on,
\* with its break once the name fits.
RECURSIVE ApplyAbbreviations(_, _)
ApplyAbbreviations(name, i) ==
    IF i > Len(TOOL_NAME_ABBREVIATIONS) THEN name
    ELSE LET replaced == Replace(name, TOOL_NAME_ABBREVIATIONS[i][1], TOOL_NAME_ABBREVIATIONS[i][2])
         IN  IF Len(replaced) <= MAX_TOOL_NAME_LENGTH THEN replaced
             ELSE ApplyAbbreviations(replaced, i + 1)

\* Mutant of Abbreviate: the table is applied whatever the length.
AbbreviateAlways(name) == ApplyAbbreviations(name, 1)

\* Step 3 of sanitize_name: `if len(name) > MAX_TOOL_NAME_LENGTH:`
Abbreviate(name) ==
    IF Len(name) > MAX_TOOL_NAME_LENGTH THEN ApplyAbbreviations(name, 1) ELSE name

NoOverride(name) == FALSE

\* `original_name in TOOL_NAME_OVERRIDES`
HasOverride(name) == \E i \in 1..Len(TOOL_NAME_OVERRIDES) : TOOL_NAME_OVERRIDES[i][1] = name

\* TOOL_NAME_OVERRIDES[original_name]
OverrideOf(name) ==
    TOOL_NAME_OVERRIDES[CHOOSE i \in 1..Len(TOOL_NAME_OVERRIDES) : TOOL_NAME_OVERRIDES[i][1] = name][2]

sanitize_name(name) ==
    IF HasOverride(name) THEN OverrideOf(name)
    ELSE Abbreviate(camel_to_snake(MapVerb(name)))

(***************************************************************************)
(* Module generation: renderers.generate_server_module                     *)
(***************************************************************************)

\* Mutant of IsInternalMethod: the without_preload variants are not skipped.
IsInternalMethodExceptPreload(method_name) ==
    \/ StartsWith(method_name, Underscore)
    \/ Contains(method_name, W_with_http_info)

\* The skip rule of generate_tool_for_method
IsInternalMethod(method_name) ==
    \/ StartsWith(method_name, Underscore)
    \/ Contains(method_name, W_with_http_info)
    \/ Contains(method_name, W_without_preload)

\* The tools generate_server_module emits for dir(api_class)[i..], in emission order:
\* one [method_name, tool_name] for every attribute that passes the loop's filters.
RECURSIVE GeneratedTools(_, _)
GeneratedTools(attrs, i) ==
    IF i > Len(attrs) THEN <<>>
    ELSE IF \/ StartsWith(attrs[i].name, Underscore)
            \/ ~attrs[i].callable
            \/ IsInternalMethod(attrs[i].name)
         THEN GeneratedTools(attrs, i + 1)
         ELSE <<[method_name |-> attrs[i].name, tool_name |-> sanitize_name(attrs[i].name)]>>
              \o GeneratedTools(attrs, i + 1)

\* The ModuleSpec returned for an API class (the fields the tools decide).
generate_server_module(attrs) ==
    LET tools == GeneratedTools(attrs, 1)
    IN  [generated |-> TRUE, tools |-> tools, tool_count |-> Len(tools)]

(***************************************************************************)
(* Python values of a parsed document. Every value has the same three      *)
(* fields: a str carries its characters, a list and a dict carry items     *)
(* (a list's items have the key ""), in order.                             *)
(***************************************************************************)

PyNone     == [type |-> "NoneType", str |-> <<>>, items |-> <<>>]
PyStr(s)   == [type |-> "str", str |-> s, items |-> <<>>]
KV(k, v)   == [key |-> k, value |-> v]
PyDict(kv) == [type |-> "dict", str |-> <<>>, items |-> kv]
PyList(vs) == [type |-> "list", str |-> <<>>, items |-> [i \in 1..Len(vs) |-> KV("", vs[i])]]

\* bool(v)
Truthy(v) ==
    CASE v.type = "NoneType" -> FALSE
      [] v.type = "str"      -> v.str # <<>>
      [] OTHER               -> v.items # <<>>

\* `key in d` for a dict d
DictHas(d, key) == \E i \in 1..Len(d.items) : d.items[i].key = key

\* d.get(key, default) for a dict d
DictGet(d, key, default) ==
    IF DictHas(d, key)
    THEN d.items[CHOOSE i \in 1..Len(d.items) : d.items[i].key = key].value
    ELSE default

\* d.update(other) on the items of two dicts: a key already present keeps its place
\* and takes the new value, a new key is appended.
RECURSIVE ItemsUpdate(_, _)
ItemsUpdate(items, other) ==
    IF other = <<>> THEN items
    ELSE LET kv == Head(other)
             merged ==
                 IF \E i \in 1..Len(items) : items[i].key = kv.key
                 THEN [i \in 1..Len(items) |-> IF items[i].key = kv.key THEN kv ELSE items[i]]
                 ELSE Append(items, kv)
         IN  ItemsUpdate(merged, Tail(other))

S_http         == <<"h", "t", "t", "p">>
S_bearer       == <<"b", "e", "a", "r", "e", "r">>
S_oauth2       == <<"o", "a", "u", "t", "h", "2">>
S_JWT          == <<"J", "W", "T">>
S_backend_read == <<"b", "a", "c", "k", "e", "n", "d", ":", "r", "e", "a", "d">>

(***************************************************************************)
(* models.SecurityConfig                                                   *)
(***************************************************************************)

\* OAuthConfig | None. flows: items flow type -> OAuthFlowConfig, in insertion order.
NoOAuthConfig == [present |-> FALSE, scheme_name |-> "", flows |-> <<>>, all_scopes |-> <<>>]

\* SecurityConfig(): every field at its default. schemes holds the items of the
\* securitySchemes mapping, in the document's order.
DefaultSecurityConfig ==
    [ schemes         |-> <<>>,
      global_security |-> PyList(<<>>),
      default_scopes  |-> <<>>,
      oauth_config    |-> NoOAuthConfig,
      bearer_format   |-> PyNone,
      jwks_uri        |-> PyNone,
      issuer          |-> PyNone,
      audience        |-> PyNone ]

\* SecurityConfig.has_authentication: bool(self.schemes) or bool(self.oauth_config)
has_authentication(config) == config.schemes # <<>> \/ config.oauth_config.present

(***************************************************************************)
(* Security extraction: introspection._load_openapi_spec and               *)
(* introspection.get_security_config                                       *)
(*                                                                         *)
(* A file is what the code can observe of it: exists (one of               *)
(* openapi.json/.yaml/.yml is there), readable (open and decoding          *)
(* succeed), json (json.load accepts the text), yaml (PyYAML is installed  *)
(* and yaml.safe_load accepts the text) and value (the value the accepting *)
(* parser returns).                                                        *)
(***************************************************************************)

\* _load_openapi_spec: the parsed value, or None. JSON is tried first; only a
\* JSONDecodeError leads to YAML; every other exception gives None.
load_openapi_spec(file) ==
    IF ~file.exists THEN PyNone
    ELSE IF ~file.readable THEN PyNone
    ELSE IF file.json THEN file.value
    ELSE IF file.yaml THEN file.value
    ELSE PyNone

Returned(config) == [done |-> TRUE, raised |-> FALSE, exception |-> "", config |-> config]
Raised(exception) == [done |-> TRUE, raised |-> TRUE, exception |-> exception,
                      config |-> DefaultSecurityConfig]
NoSecurityResult == [done |-> FALSE, raised |-> FALSE, exception |-> "", config |-> DefaultSecurityConfig]

FlowTypesWithoutImplicit == <<"authorizationCode", "password", "clientCredentials">>

\* The flow kinds get_security_config looks for, in its order.
FlowTypes == <<"authorizationCode", "implicit", "password", "clientCredentials">>

\* OAuthFlowConfig(...) for one flow definition
OAuthFlowConfig(flow_def) ==
    PyDict(<< KV("authorization_url", DictGet(flow_def, "authorizationUrl", PyNone)),
              KV("token_url", DictGet(flow_def, "tokenUrl", PyNone)),
              KV("refresh_url", DictGet(flow_def, "refreshUrl", PyNone)),
              KV("scopes", DictGet(flow_def, "scopes", PyDict(<<>>))) >>)

\* The loop over the four flow kinds from index k on, for the flows of one oauth2
\* scheme: every present flow becomes an OAuthFlowConfig and its scopes are merged
\* into all_scopes.
RECURSIVE ExtractFlows(_, _, _)
ExtractFlows(oauth_config, flows, k) ==
    IF k > Len(FlowTypes) THEN oauth_config
    ELSE IF ~DictHas(flows, FlowTypes[k]) THEN ExtractFlows(oauth_config, flows, k + 1)
    ELSE LET flow_def == DictGet(flows, FlowTypes[k], PyNone)
         IN  ExtractFlows(
                 [oauth_config EXCEPT
                     !.flows = ItemsUpdate(@, <<KV(FlowTypes[k], OAuthFlowConfig(flow_def))>>),
                     !.all_scopes = ItemsUpdate(@, DictGet(flow_def, "scopes", PyDict(<<>>)).items)],
                 flows, k + 1)

\* One iteration of `for scheme_name, scheme_def in security_schemes.items()`.
ExtractScheme(config, scheme_name, scheme_def) ==
    LET scheme_type == Lower(DictGet(scheme_def, "type", PyStr(<<>>)).str)
    IN  IF scheme_type = S_oauth2
        THEN [config EXCEPT !.oauth_config =
                 ExtractFlows([present |-> TRUE, scheme_name |-> scheme_name,
                               flows |-> <<>>, all_scopes |-> <<>>],
                              DictGet(scheme_def, "flows", PyDict(<<>>)), 1)]
        ELSE IF scheme_type = S_http /\ DictGet(scheme_def, "scheme", PyNone) = PyStr(S_bearer)
        THEN [config EXCEPT !.bearer_format = DictGet(scheme_def, "bearerFormat", PyStr(S_JWT))]
        ELSE config

\* The loop over security_schemes.items(), in the mapping's own order, from item i on.
RECURSIVE ExtractSchemes(_, _, _)
ExtractSchemes(config, schemes, i) ==
    IF i > Len(schemes) THEN config
    ELSE ExtractSchemes(ExtractScheme(config, schemes[i].key, schemes[i].value), schemes, i + 1)

\* Mutant of GlobalScopes: the scopes of the first root-level requirement only.
GlobalScopesOfFirst(global_security) ==
    IF global_security.items = <<>> THEN {}
    ELSE LET sec_req == global_security.items[1].value
         IN  UNION { { sec_req.items[j].value.items[k].value.str
                         : k \in 1..Len(sec_req.items[j].value.items) }
                     : j \in 1..Len(sec_req.items) }

\* default_scopes as a set: the scopes of every scheme of every root-level
\* security requirement.
GlobalScopes(global_security) ==
    UNION { UNION { { sec_req.items[j].value.items[k].value.str
                        : k \in 1..Len(sec_req.items[j].value.items) }
                    : j \in 1..Len(sec_req.items) }
            : sec_req \in {global_security.items[i].value : i \in 1..Len(global_security.items)} }

\* The part of get_security_config after the schemes were found: a document spec
\* (a dict) with a non-empty securitySchemes dict whose definitions are dicts.
ExtractSecurityConfig(spec, security_schemes) ==
    LET config == [DefaultSecurityConfig EXCEPT
                      !.schemes = security_schemes.items,
                      !.global_security = DictGet(spec, "security", PyList(<<>>))]
        with_schemes == ExtractSchemes(config, security_schemes.items, 1)
        default_scopes == GlobalScopes(with_schemes.global_security)
    IN  [with_schemes EXCEPT
            !.default_scopes = IF default_scopes # {} THEN Sorted(default_scopes)
                               ELSE <<S_backend_read>>,
            !.jwks_uri = DictGet(spec, "x-jwks-uri", @),
            !.issuer   = DictGet(spec, "x-issuer", @),
            !.audience = DictGet(spec, "x-audience", @)]

\* Iterating the root-level security value: None is not iterable (TypeError); each
\* element met must have .items(), so an element that is no dict, a character of a
\* non-empty string or a key of a non-empty dict raises AttributeError.
GlobalSecurityRaises(global_security) ==
    CASE global_security.type = "NoneType" -> "TypeError"
      [] global_security.type = "list" ->
            IF \E i \in 1..Len(global_security.items) : global_security.items[i].value.type # "dict"
            THEN "AttributeError" ELSE ""
      [] OTHER -> IF Truthy(global_security) THEN "AttributeError" ELSE ""

\* get_security_config. spec.get, components.get, security_schemes.items() and
\* scheme_def.get raise AttributeError on a value that is no dict.
get_security_config(file) ==
    IF ~file.exists THEN Returned(DefaultSecurityConfig)
    ELSE LET spec == load_openapi_spec(file)
         IN  IF ~Truthy(spec) THEN Returned(DefaultSecurityConfig)
             ELSE IF spec.type # "dict" THEN Raised("AttributeError")
             ELSE LET components == DictGet(spec, "components", PyDict(<<>>))
                  IN  IF components.type # "dict" THEN Raised("AttributeError")
                      ELSE LET security_schemes == DictGet(components, "securitySchemes", PyDict(<<>>))
                               global_security == DictGet(spec, "security", PyList(<<>>))
                           IN  IF ~Truthy(security_schemes) THEN Returned(DefaultSecurityConfig)
                               ELSE IF security_schemes.type # "dict" THEN Raised("AttributeError")
                               ELSE IF \E i \in 1..Len(security_schemes.items) :
                                           security_schemes.items[i].value.type # "dict"
                                    THEN Raised("AttributeError")
                               ELSE IF GlobalSecurityRaises(global_security) # ""
                                    THEN Raised(GlobalSecurityRaises(global_security))
                               ELSE Returned(ExtractSecurityConfig(spec, security_schemes))

(***************************************************************************)
(* Module composer: generator.generate_main_composition_server             *)
(***************************************************************************)

\* modules.keys()
ModuleKeys(mods) == {mods[i].module_name : i \in 1..Len(mods)}

\* modules[name]
ModuleNamed(mods, name) == mods[CHOOSE i \in 1..Len(mods) : mods[i].module_name = name]

\* Mutant of module_names_of: the keys in insertion order, list(modules.keys()).
module_names_unsorted(mods) == [i \in 1..Len(mods) |-> mods[i].module_name]

\* module_names = sorted(modules.keys())
module_names_of(mods) == Sorted(ModuleKeys(mods))

\* sum(spec.tool_count for spec in modules.values())
RECURSIVE SumToolCount(_, _)
SumToolCount(mods, i) ==
    IF i > Len(mods) THEN 0 ELSE mods[i].tool_count + SumToolCount(mods, i + 1)

DotPy == <<".", "p", "y">>

\* The import lines: from servers.<filename without .py> import mcp as <name>_mcp
ImportLines(mods, names) ==
    [i \in 1..Len(names) |->
        [module |-> Replace(ModuleNamed(mods, names[i]).filename, DotPy, <<>>),
         alias  |-> names[i]]]

\* The composition calls inside _compose_mcp_servers
CompositionCalls(names, strategy) ==
    [i \in 1..Len(names) |->
        IF strategy = "import"
        THEN [call |-> "import_server", awaited |-> TRUE, name |-> names[i]]
        ELSE [call |-> "mount", awaited |-> FALSE, name |-> names[i]]]

\* Mutant of SubserverImportBlock: the import is awaited outside any try/except.
SubserverImportUncaught(name) == [name |-> name, caught |-> FALSE]

\* One try/except block of _import_subservers_once:
\*     try: await app.import_server(<name>_mcp, prefix="<name>")
\*     except Exception as _exc: logger.debug(...)
SubserverImportBlock(name) == [name |-> name, caught |-> TRUE]

\* import_subservers_def: the helper is emitted for the mount strategy only.
ImportSubserversDef(names, strategy) ==
    IF strategy = "mount"
    THEN [defined |-> TRUE, blocks |-> [i \in 1..Len(names) |-> SubserverImportBlock(names[i])]]
    ELSE [defined |-> FALSE, blocks |-> <<>>]

\* http_import_call is assigned inside `if composition_strategy == "mount":` only; the
\* template of main() reads it for every strategy.
HttpImportCallBound(strategy) == strategy = "mount"

\* The statements of the emitted main() that the template holds for every
\* security_config: the branch `if hasattr(args, 'validate_tokens') and
\* args.validate_tokens:` calls create_jwt_verifier() and build_authentication_stack(),
\* and builds http_app without a middleware argument.
MainTemplate ==
    [ validate_tokens_branch      |-> TRUE,
      create_jwt_verifier         |-> TRUE,
      build_authentication_stack  |-> TRUE,
      middleware_passed_to_app    |-> FALSE ]

NotComposed ==
    [ done |-> FALSE, raised |-> FALSE, module_names |-> <<>>, total_tool_count |-> 0,
      imports |-> <<>>, compositions |-> <<>>, is_async_composition |-> FALSE,
      need_asyncio |-> FALSE,
      import_subservers_def |-> [defined |-> FALSE, blocks |-> <<>>],
      http_import_call |-> FALSE,
      auth_imports |-> FALSE, auth_middleware_setup |-> FALSE, auth_argparse |-> FALSE,
      auth_validation |-> FALSE, event_store_init |-> FALSE,
      create_server_awaits |-> FALSE, main_runs_compose_with_asyncio |-> FALSE,
      main |-> MainTemplate ]

\* The outcome of generate_main_composition_server: the values it builds and, unless it
\* raised, the holes of the emitted source they fill. raised: the f-string that builds
\* the source reads http_import_call while it is unbound (UnboundLocalError).
generate_main_composition_server(mods, config, strategy) ==
    LET names == module_names_of(mods)
        is_async_composition == strategy = "import"
        auth == has_authentication(config)
    IN  [ done                  |-> TRUE,
          raised                |-> ~HttpImportCallBound(strategy),
          module_names          |-> names,
          total_tool_count      |-> SumToolCount(mods, 1),
          imports               |-> ImportLines(mods, names),
          compositions          |-> CompositionCalls(names, strategy),
          is_async_composition  |-> is_async_composition,
          need_asyncio          |-> is_async_composition \/ strategy = "mount",
          import_subservers_def |-> ImportSubserversDef(names, strategy),
          http_import_call      |-> strategy = "mount",
          auth_imports          |-> auth,
          auth_middleware_setup |-> auth,
          auth_argparse         |-> auth,
          auth_validation       |-> auth,
          event_store_init      |-> auth,
          create_server_awaits  |-> is_async_composition,
          main_runs_compose_with_asyncio |-> is_async_composition,
          main                  |-> MainTemplate ]


(***************************************************************************)
(* Inputs of the naming engine                                             *)
(***************************************************************************)

\* Number of "x" that pad a long method name: get_a followed by LongPad "x" is
\* longer than MAX_TOOL_NAME_LENGTH.
LongPad == 60

\* Number of attributes of an API class
MaxMethods == 2

N_a                     == <<"a">>
N_get_a                 == W_get \o <<"_", "a">>
N_list_a                == W_list \o <<"_", "a">>
N_get_a_by_b            == W_get \o <<"_", "a">> \o W_by \o <<"b">>
N_post_a                == W_post \o <<"_", "a">>
N_create_a              == W_create \o <<"_", "a">>
N_put_a                 == W_put \o <<"_", "a">>
N_patch_a               == W_patch \o <<"_", "a">>
N_delete_a              == W_delete \o <<"_", "a">>
N_getA                  == W_get \o <<"A">>
N_private               == <<"_", "a">>
N_get_a_with_http_info  == N_get_a \o Underscore \o W_with_http_info
N_get_a_without_preload == N_get_a \o Underscore \o W_without_preload
N_long                  == N_get_a \o Repeat("x", LongPad)
N_get_aB                == W_get \o <<"_", "a", "B">>
N_Get_A                 == <<"G", "e", "t", "_", "A">>
N_attr                  == <<"a", "t", "t", "r">>

\* Attributes an API class may have: methods, and one data attribute.
MethodNames ==
    { N_get_a, N_list_a, N_get_a_by_b, N_post_a, N_create_a, N_put_a, N_patch_a,
      N_delete_a, N_getA, N_private, N_get_a_with_http_info, N_get_a_without_preload,
      N_long, N_get_aB }

AttributeNames == MethodNames \cup {N_attr}

\* dir(api_class) for a class with the attributes S: the names, sorted.
DirOf(S) ==
    LET names == Sorted(S)
    IN  [i \in 1..Len(names) |-> [name |-> names[i], callable |-> names[i] \in MethodNames]]

ApiClasses == {DirOf(S) : S \in {T \in SUBSET AttributeNames : Cardinality(T) <= MaxMethods}}

\* config.py ships both tables empty; they are meant to be filled in.
OverrideTables ==
    { <<>>,
      << <<N_getA, <<"p", "e", "t", "s">> >> >>,
      << <<N_post_a, N_Get_A>>, <<N_long, N_long>> >> }

AbbreviationTables ==
    { <<>>,
      << << <<"x", "x">>, <<"x">> >> >>,
      << <<W_list, <<"l", "s">> >>, << <<"x", "x">>, <<"x">> >> >>,
      << <<W_list, <<"l", "s", "t">> >> >> }

(***************************************************************************)
(* The naming run: one module is generated for one API class               *)
(***************************************************************************)

NamingInit ==
    /\ TOOL_NAME_OVERRIDES \in OverrideTables
    /\ TOOL_NAME_ABBREVIATIONS \in AbbreviationTables
    /\ api_class \in ApiClasses
    /\ module_spec = NoModule
    /\ renamed = NoRenamed
    /\ naming_log = <<>>

NamingIdle ==
    /\ TOOL_NAME_OVERRIDES = <<>>
    /\ TOOL_NAME_ABBREVIATIONS = <<>>
    /\ api_class = <<>>
    /\ module_spec = NoModule
    /\ renamed = NoRenamed
    /\ naming_log = <<>>

\* generate_server_module(api_var_name, api_class). Neither it nor sanitize_name
\* prints or raises anything about the names it produces: naming_log is left alone.
GenerateServerModule ==
    /\ ~module_spec.generated
    /\ module_spec' = generate_server_module(api_class)
    /\ UNCHANGED <<TOOL_NAME_OVERRIDES, TOOL_NAME_ABBREVIATIONS, api_class, renamed, naming_log,
                   otherThanNaming>>

\* sanitize_name applied to a tool name that sanitize_name produced.
SanitizeAgain ==
    /\ module_spec.generated
    /\ ~renamed.done
    /\ \E i \in 1..Len(module_spec.tools) :
          renamed' = [done   |-> TRUE,
                      name   |-> module_spec.tools[i].tool_name,
                      result |-> sanitize_name(module_spec.tools[i].tool_name)]
    /\ UNCHANGED <<TOOL_NAME_OVERRIDES, TOOL_NAME_ABBREVIATIONS, api_class, module_spec, naming_log,
                   otherThanNaming>>

NamingNext == GenerateServerModule \/ SanitizeAgain


(***************************************************************************)
(* Inputs of the composer                                                  *)
(***************************************************************************)

\* Number of modules handed to the composer
MaxModules == 3

M_Pet      == [ module_name |-> <<"P", "e", "t">>,
                filename    |-> <<"p", "e", "t", "_", "s", "e", "r", "v", "e", "r">> \o DotPy,
                tool_count  |-> 2 ]
M_PetStore == [ module_name |-> <<"P", "e", "t", "S", "t", "o", "r", "e">>,
                filename    |-> <<"p", "e", "t", "_", "s", "t", "o", "r", "e", "_", "s", "e", "r", "v", "e", "r">> \o DotPy,
                tool_count  |-> 1 ]
M_Store    == [ module_name |-> <<"S", "t", "o", "r", "e">>,
                filename    |-> <<"s", "t", "o", "r", "e", "_", "s", "e", "r", "v", "e", "r">> \o DotPy,
                tool_count  |-> 3 ]
M_User     == [ module_name |-> <<"U", "s", "e", "r">>,
                filename    |-> <<"u", "s", "e", "r", "_", "s", "e", "r", "v", "e", "r">> \o DotPy,
                tool_count  |-> 0 ]

ModulePool == {M_Pet, M_PetStore, M_Store, M_User}

\* Every dict of at most MaxModules modules, in every insertion order.
ModuleDicts ==
    UNION { { m \in [1..n -> ModulePool] : \A i, j \in 1..n : i # j => m[i] # m[j] }
            : n \in 0..MaxModules }

\* {"type": "http", "scheme": "bearer"}
BearerScheme == PyDict(<<KV("type", PyStr(S_http)), KV("scheme", PyStr(S_bearer))>>)

\* The SecurityConfig of a document with one bearer scheme
BearerSecurityConfig ==
    [DefaultSecurityConfig EXCEPT
        !.schemes = <<KV("bearerAuth", BearerScheme)>>,
        !.default_scopes = <<S_backend_read>>,
        !.bearer_format = PyStr(S_JWT)]

SecurityConfigs == {DefaultSecurityConfig, BearerSecurityConfig}

\* composition.strategy of fastmcp.json: any string
Strategies == {"mount", "import", "static"}

(***************************************************************************)
(* A run of the emitted main()                                             *)
(***************************************************************************)

NotStarted ==
    [ pc |-> "not_started", transport |-> "stdio",
      has_validate_tokens |-> FALSE, validate_tokens |-> FALSE,
      composed_names |-> <<>>,
      helper_runs |-> 0, helper_idx |-> 0, attempted |-> <<>>, logged |-> <<>>,
      helper_raised |-> FALSE,
      jwt_verifier |-> "unset", asgi_middleware |-> FALSE,
      http_app |-> [built |-> FALSE, middleware |-> FALSE] ]

\* generate_main_composition_server, called once
Compose ==
    /\ ~composed.done
    /\ composed' = generate_main_composition_server(modules, security_config, composition_strategy)
    /\ UNCHANGED <<modules, security_config, composition_strategy, server, otherThanCompose>>

\* main() up to the middleware stack: the arguments are parsed (--validate-tokens
\* exists only when auth_argparse was emitted) and auth_validation clears
\* validate_tokens outside the http transport.
MainParseArgs ==
    /\ composed.done /\ ~composed.raised
    /\ server.pc = "not_started"
    /\ \E transport \in {"stdio", "http"}, flag \in BOOLEAN :
          /\ composed.auth_argparse \/ ~flag
          /\ server' = [server EXCEPT
                !.pc = "compose",
                !.transport = transport,
                !.has_validate_tokens = composed.auth_argparse,
                !.validate_tokens =
                    IF composed.auth_validation /\ flag /\ transport # "http" THEN FALSE ELSE flag]
    /\ UNCHANGED <<modules, security_config, composition_strategy, composed, otherThanCompose>>

\* Mutant of RunsImportHelper: the call is emitted before the branch on the transport.
RunsImportHelperAnyTransport(transport, http_import_call) == http_import_call

\* {http_import_call} stands in the `else:  # http` branch of main(): the helper is
\* started when the transport is not stdio and the call was emitted.
RunsImportHelper(transport, http_import_call) == transport # "stdio" /\ http_import_call

\* main(): _compose_mcp_servers(), then the branch on the transport; under http the
\* mount strategy's http_import_call starts _import_subservers_once.
MainComposeServers ==
    /\ server.pc = "compose"
    /\ server' = [server EXCEPT
          !.composed_names = [i \in 1..Len(composed.compositions) |-> composed.compositions[i].name],
          !.pc = IF RunsImportHelper(server.transport, composed.http_import_call) THEN "helper"
                 ELSE IF server.transport = "stdio" THEN "run_stdio" ELSE "http_app",
          !.helper_runs = IF RunsImportHelper(server.transport, composed.http_import_call)
                          THEN @ + 1 ELSE @,
          !.helper_idx = 1]
    /\ UNCHANGED <<modules, security_config, composition_strategy, composed, otherThanCompose>>

\* One block of _import_subservers_once: app.import_server is awaited and returns or
\* raises an Exception; the block's except clause logs it, and without one the
\* exception leaves the helper.
HelperImportBlock ==
    /\ server.pc = "helper"
    /\ server.helper_idx <= Len(composed.import_subservers_def.blocks)
    /\ LET block == composed.import_subservers_def.blocks[server.helper_idx]
       IN  \E raises \in BOOLEAN :
              server' = [server EXCEPT
                 !.attempted = Append(@, block.name),
                 !.logged = IF raises /\ block.caught THEN Append(@, block.name) ELSE @,
                 !.helper_raised = raises /\ ~block.caught,
                 !.helper_idx = @ + 1,
                 !.pc = IF raises /\ ~block.caught THEN "http_app" ELSE "helper"]
    /\ UNCHANGED <<modules, security_config, composition_strategy, composed, otherThanCompose>>

\* _import_subservers_once returns after its last block.
HelperReturn ==
    /\ server.pc = "helper"
    /\ server.helper_idx > Len(composed.import_subservers_def.blocks)
    /\ server' = [server EXCEPT !.pc = "http_app"]
    /\ UNCHANGED <<modules, security_config, composition_strategy, composed, otherThanCompose>>

\* main(), http branch: the HTTP app is built. With validate_tokens set,
\* create_jwt_verifier() returns a verifier or None; with a verifier
\* build_authentication_stack() is called, and create_streamable_http_app gets the
\* middleware only if the template passes it.
MainBuildHttpApp ==
    /\ server.pc = "http_app"
    /\ IF server.has_validate_tokens /\ server.validate_tokens
       THEN \E verifier \in {"none", "verifier"} :
               server' = [server EXCEPT
                  !.jwt_verifier = verifier,
                  !.asgi_middleware = (verifier = "verifier") /\ composed.main.build_authentication_stack,
                  !.http_app = [built |-> TRUE,
                                middleware |-> (verifier = "verifier") /\ composed.main.middleware_passed_to_app],
                  !.pc = "serve_http"]
       ELSE server' = [server EXCEPT
                  !.http_app = [built |-> TRUE, middleware |-> FALSE],
                  !.pc = "serve_http"]
    /\ UNCHANGED <<modules, security_config, composition_strategy, composed, otherThanCompose>>

\* main(): app.run(transport="stdio"), or uvicorn serves http_app.
MainServe ==
    /\ server.pc \in {"run_stdio", "serve_http"}
    /\ server' = [server EXCEPT !.pc = "serving"]
    /\ UNCHANGED <<modules, security_config, composition_strategy, composed, otherThanCompose>>

ComposeInit ==
    /\ modules \in ModuleDicts
    /\ security_config \in SecurityConfigs
    /\ composition_strategy \in Strategies
    /\ composed = NotComposed
    /\ server = NotStarted

ComposeIdle ==
    /\ modules = <<>>
    /\ security_config = DefaultSecurityConfig
    /\ composition_strategy = "mount"
    /\ composed = NotComposed
    /\ server = NotStarted

ComposeNext ==
    \/ Compose
    \/ MainParseArgs
    \/ MainComposeServers
    \/ HelperImportBlock
    \/ HelperReturn
    \/ MainBuildHttpApp
    \/ MainServe

(***************************************************************************)
(* Inputs of the security extraction: the API description documents        *)
(***************************************************************************)

MaxSchemes == 2

S_read == <<"r", "e", "a", "d">>
S_write == <<"w", "r", "i", "t", "e">>
S_apiKey == <<"a", "p", "i", "K", "e", "y">>
S_url == <<"u">>

\* {"type": "oauth2", "flows": {"authorizationCode": {...}}}
OAuth2Scheme ==
    PyDict(<< KV("type", PyStr(S_oauth2)),
              KV("flows", PyDict(<< KV("authorizationCode",
                    PyDict(<< KV("authorizationUrl", PyStr(S_url)),
                              KV("tokenUrl", PyStr(S_url)),
                              KV("scopes", PyDict(<<KV("read", PyStr(S_read))>>)) >>)) >>)) >>)

\* {"type": "apiKey"}
ApiKeyScheme == PyDict(<<KV("type", PyStr(S_apiKey))>>)

S_opaque == <<"o", "p", "a", "q", "u", "e">>
S_admin == <<"a", "d", "m", "i", "n">>
S_OAuth2 == <<"O", "A", "u", "t", "h", "2">>

\* {"type": "http", "scheme": "bearer", "bearerFormat": "opaque"}
OpaqueBearerScheme ==
    PyDict(<<KV("type", PyStr(S_http)), KV("scheme", PyStr(S_bearer)),
             KV("bearerFormat", PyStr(S_opaque))>>)

\* One flow definition with the given scopes, as a mapping scope -> description
FlowDef(scopes) == PyDict(<<KV("tokenUrl", PyStr(S_url)), KV("scopes", PyDict(scopes))>>)

\* An oauth2 scheme with the authorizationCode (read) and clientCredentials (write)
\* flows, in the order a document may list them.
TwoFlowScheme ==
    PyDict(<< KV("type", PyStr(S_oauth2)),
              KV("flows", PyDict(<< KV("clientCredentials", FlowDef(<<KV("write", PyStr(S_write))>>)),
                                    KV("authorizationCode", FlowDef(<<KV("read", PyStr(S_read))>>)) >>)) >>)

\* An oauth2 scheme (type written "OAuth2") with the implicit and password flows,
\* one flow kind the extraction does not know and one flow without scopes.
MixedFlowScheme ==
    PyDict(<< KV("type", PyStr(S_OAuth2)),
              KV("flows", PyDict(<< KV("deviceCode", FlowDef(<<KV("admin", PyStr(S_admin))>>)),
                                    KV("password", PyDict(<<KV("tokenUrl", PyStr(S_url))>>)),
                                    KV("implicit", FlowDef(<<KV("read", PyStr(S_read)),
                                                             KV("write", PyStr(S_write))>>)) >>)) >>)

\* An oauth2 scheme without a flows object
NoFlowScheme == PyDict(<<KV("type", PyStr(S_oauth2))>>)

SchemePool == { KV("bearerAuth", BearerScheme), KV("opaqueAuth", OpaqueBearerScheme),
                KV("apiKey", ApiKeyScheme),
                KV("oauth2", OAuth2Scheme), KV("twoFlows", TwoFlowScheme),
                KV("mixedFlows", MixedFlowScheme), KV("noFlows", NoFlowScheme) }

\* Every securitySchemes mapping of at most MaxSchemes schemes, in every order.
SchemeDicts ==
    UNION { { PyDict(m) : m \in { f \in [1..n -> SchemePool] : \A i, j \in 1..n : i # j => f[i] # f[j] } }
            : n \in 1..MaxSchemes }

\* What a document may have under "components"
ComponentsValues ==
    { PyNone, PyDict(<<>>), PyList(<<PyStr(S_http)>>),
      PyDict(<<KV("securitySchemes", PyNone)>>),
      PyDict(<<KV("securitySchemes", PyDict(<<>>))>>),
      PyDict(<<KV("securitySchemes", PyList(<<PyStr(S_http)>>))>>),
      PyDict(<<KV("securitySchemes", PyDict(<<KV("bearerAuth", PyStr(S_bearer))>>))>>) }
    \cup { PyDict(<<KV("securitySchemes", d)>>) : d \in SchemeDicts }

\* What a document may have under "security"
SecurityValues ==
    { PyNone, PyList(<<>>),
      PyList(<<PyDict(<<KV("bearerAuth", PyList(<<>>))>>)>>),
      PyList(<<PyDict(<<KV("oauth2", PyList(<<PyStr(S_write), PyStr(S_read)>>))>>)>>),
      PyList(<<PyDict(<<KV("oauth2", PyList(<<PyStr(S_write), PyStr(S_read)>>))>>),
               PyDict(<<KV("bearerAuth", PyList(<<PyStr(S_read), PyStr(S_admin)>>)),
                        KV("apiKey", PyList(<<>>))>>)>>) }

\* The documents that are mappings: components, security and x-issuer each absent
\* or present.
MappingDocuments ==
    { PyDict(c \o g \o x) :
        c \in {<<>>} \cup { <<KV("components", v)>> : v \in ComponentsValues },
        g \in {<<>>} \cup { <<KV("security", v)>> : v \in SecurityValues },
        x \in {<<>>, <<KV("x-issuer", PyStr(S_url))>>} }

\* The documents that are no mappings: null, a scalar, a list, in both emptinesses.
NonMappingDocuments ==
    { PyNone, PyStr(<<>>), PyStr(S_http), PyList(<<>>), PyList(<<PyStr(S_http)>>) }

Documents == MappingDocuments \cup NonMappingDocuments

NoFile == [exists |-> FALSE, readable |-> FALSE, json |-> FALSE, yaml |-> FALSE, value |-> PyNone]

\* No file; a file that cannot be read or parsed; a JSON text; a text only the YAML
\* parser accepts, with or without PyYAML installed.
OpenApiFiles ==
    { NoFile,
      [NoFile EXCEPT !.exists = TRUE],
      [NoFile EXCEPT !.exists = TRUE, !.readable = TRUE] }
    \cup { [exists |-> TRUE, readable |-> TRUE, json |-> TRUE, yaml |-> y, value |-> d]
             : y \in BOOLEAN, d \in Documents }
    \cup { [exists |-> TRUE, readable |-> TRUE, json |-> FALSE, yaml |-> TRUE, value |-> d]
             : d \in Documents }

SecurityInit ==
    /\ openapi_file \in OpenApiFiles
    /\ security_result = NoSecurityResult

SecurityIdle ==
    /\ openapi_file = NoFile
    /\ security_result = NoSecurityResult

\* One call of get_security_config(base_dir)
GetSecurityConfig ==
    /\ ~security_result.done
    /\ security_result' = get_security_config(openapi_file)
    /\ UNCHANGED <<openapi_file, otherThanSecurity>>

SecurityNext ==
    \/ GetSecurityConfig

(***************************************************************************)
(* One run of the generator: cli.main from generate_all on, with           *)
(* generator.generate_all and the writers it calls. When the run starts the *)
(* output directory holds at most a fastmcp.json.                          *)
(***************************************************************************)

NoFastmcpJson == [exists |-> FALSE, loads |-> FALSE, has_strategy |-> FALSE, strategy |-> "mount"]

\* No fastmcp.json; one that json.load rejects; one without composition.strategy;
\* one with each strategy.
FastmcpJsonFiles ==
    { NoFastmcpJson,
      [NoFastmcpJson EXCEPT !.exists = TRUE],
      [NoFastmcpJson EXCEPT !.exists = TRUE, !.loads = TRUE] }
    \cup { [exists |-> TRUE, loads |-> TRUE, has_strategy |-> TRUE, strategy |-> st]
             : st \in Strategies }

\* The strategy cli.main takes from fastmcp.json: "mount" unless the file exists,
\* loads and names one.
StrategyFrom(file) ==
    IF file.exists /\ file.loads /\ file.has_strategy THEN file.strategy ELSE "mount"

\* The API descriptions a run is started on: none, one with a bearer scheme, one
\* that is a list.
JsonFile(document) ==
    [exists |-> TRUE, readable |-> TRUE, json |-> TRUE, yaml |-> FALSE, value |-> document]

CliOpenApiFiles ==
    { NoFile,
      JsonFile(PyDict(<<KV("components",
                  PyDict(<<KV("securitySchemes", PyDict(<<KV("bearerAuth", BearerScheme)>>))>>))>>)),
      JsonFile(PyList(<<PyStr(S_http)>>)) }

S_init_py == <<"_", "_", "i", "n", "i", "t", "_", "_", ".", "p", "y">>

\* write_server_modules: one file per module, in the dict's order, then __init__.py
ServerFilesWritten(mods) == [i \in 1..Len(mods) |-> mods[i].filename] \o <<S_init_py>>

CliNotRun ==
    [ pc |-> "idle", servers |-> <<>>, middleware |-> FALSE, main_server |-> FALSE,
      package |-> FALSE, tests |-> FALSE, exit_code |-> 0 ]

CliStart == [CliNotRun EXCEPT !.pc = "generate_all"]

\* The two except clauses of main: print, sys.exit(1). Nothing written is removed.
CliFailed(c) == [c EXCEPT !.pc = "failed", !.exit_code = 1]

\* generate_all: get_security_config, then the modules
CliGenerateAll ==
    /\ cli.pc = "generate_all"
    /\ LET result == get_security_config(openapi_file)
       IN  IF result.raised
           THEN /\ cli' = CliFailed(cli)
                /\ UNCHANGED security_config
           ELSE /\ security_config' = result.config
                /\ cli' = [cli EXCEPT !.pc = "write_server_modules"]
    /\ UNCHANGED <<modules, composition_strategy, composed, server, fastmcp_json,
                   namingVars, securityVars, resourceVars, metadataVars, registryVars, cacheVars, handlerVars, modularVars>>

\* write_server_modules(modules, servers_dir)
CliWriteServerModules ==
    /\ cli.pc = "write_server_modules"
    /\ cli' = [cli EXCEPT !.servers = ServerFilesWritten(modules), !.pc = "write_middleware"]
    /\ UNCHANGED <<composeVars, fastmcp_json, namingVars, securityVars, resourceVars, metadataVars, registryVars, cacheVars, handlerVars, modularVars>>

\* if security_config.has_authentication(): write_middleware_files(...)
CliWriteMiddleware ==
    /\ cli.pc = "write_middleware"
    /\ cli' = [cli EXCEPT !.middleware = has_authentication(security_config),
                          !.pc = "compose"]
    /\ UNCHANGED <<composeVars, fastmcp_json, namingVars, securityVars, resourceVars, metadataVars, registryVars, cacheVars, handlerVars, modularVars>>

\* The strategy is read from fastmcp.json and generate_main_composition_server is
\* called with it.
CliComposeMainServer ==
    /\ cli.pc = "compose"
    /\ composition_strategy' = StrategyFrom(fastmcp_json)
    /\ composed' = generate_main_composition_server(modules, security_config,
                                                    composition_strategy')
    /\ cli' = IF composed'.raised THEN CliFailed(cli)
              ELSE [cli EXCEPT !.pc = "write_main_server"]
    /\ UNCHANGED <<modules, security_config, server, fastmcp_json, namingVars, securityVars, resourceVars, metadataVars, registryVars, cacheVars, handlerVars, modularVars>>

\* write_main_server(main_server_code, main_output_file)
CliWriteMainServer ==
    /\ cli.pc = "write_main_server"
    /\ cli' = [cli EXCEPT !.main_server = TRUE, !.pc = "write_package_files"]
    /\ UNCHANGED <<composeVars, fastmcp_json, namingVars, securityVars, resourceVars, metadataVars, registryVars, cacheVars, handlerVars, modularVars>>

\* write_package_files, write_test_files, write_test_runner, the summary
CliWritePackageAndTests ==
    /\ cli.pc = "write_package_files"
    /\ cli' = [cli EXCEPT !.package = TRUE, !.tests = TRUE, !.pc = "done"]
    /\ UNCHANGED <<composeVars, fastmcp_json, namingVars, securityVars, resourceVars, metadataVars, registryVars, cacheVars, handlerVars, modularVars>>

CliInit ==
    /\ modules \in ModuleDicts
    /\ security_config = DefaultSecurityConfig
    /\ composition_strategy = "mount"
    /\ composed = NotComposed
    /\ server = NotStarted
    /\ openapi_file \in CliOpenApiFiles
    /\ security_result = NoSecurityResult
    /\ fastmcp_json \in FastmcpJsonFiles
    /\ cli = CliStart

CliIdle ==
    /\ fastmcp_json = NoFastmcpJson
    /\ cli = CliNotRun

CliNext ==
    \/ CliGenerateAll
    \/ CliWriteServerModules
    \/ CliWriteMiddleware
    \/ CliComposeMainServer
    \/ CliWriteMainServer
    \/ CliWritePackageAndTests

(***************************************************************************)
(* Resource templates: renderers.generate_resource_for_endpoint and        *)
(* renderers.render_resource, on the endpoints                             *)
(* introspection.get_resource_endpoints produces                           *)
(***************************************************************************)

\* str.split("/")
RECURSIVE SplitSlash(_)
SplitSlash(s) ==
    IF \A i \in 1..Len(s) : s[i] # "/" THEN <<s>>
    ELSE LET i == CHOOSE k \in 1..Len(s) : s[k] = "/" /\ \A j \in 1..(k - 1) : s[j] # "/"
         IN  <<SubSeq(s, 1, i - 1)>> \o SplitSlash(SubSeq(s, i + 1, Len(s)))

\* Mutant of LStripSlash: the path is kept with its leading slash.
KeepLeadingSlash(s) == s

\* str.lstrip("/")
RECURSIVE LStripSlash(_)
LStripSlash(s) == IF s # <<>> /\ Head(s) = "/" THEN LStripSlash(Tail(s)) ELSE s

\* ",".join(names)
RECURSIVE JoinComma(_)
JoinComma(names) ==
    IF names = <<>> THEN <<>>
    ELSE IF Len(names) = 1 THEN names[1]
    ELSE names[1] \o <<",">> \o JoinComma(Tail(names))

\* [seg for seg in path.split("/") if seg and not seg.startswith("{")]
RECURSIVE MeaningfulSegments(_)
MeaningfulSegments(segs) ==
    IF segs = <<>> THEN <<>>
    ELSE IF Head(segs) # <<>> /\ ~StartsWith(Head(segs), <<"{">>)
         THEN <<Head(segs)>> \o MeaningfulSegments(Tail(segs))
         ELSE MeaningfulSegments(Tail(segs))

T_str    == <<"s", "t", "r">>
T_int    == <<"i", "n", "t">>
T_float  == <<"f", "l", "o", "a", "t">>
T_bool   == <<"b", "o", "o", "l">>
T_list   == <<"l", "i", "s", "t", "[", "s", "t", "r", "]">>
T_None   == <<"N", "o", "n", "e">>
T_zero   == <<"0">>
T_Context == <<"C", "o", "n", "t", "e", "x", "t">>
T_ctx    == <<"c", "t", "x">>
T_application_json == <<"a", "p", "p", "l", "i", "c", "a", "t", "i", "o", "n", "/", "j", "s", "o", "n">>

\* type_map.get(param_type, "str")
type_map(param_type) ==
    CASE param_type = "string"  -> T_str
      [] param_type = "integer" -> T_int
      [] param_type = "number"  -> T_float
      [] param_type = "boolean" -> T_bool
      [] param_type = "array"   -> T_list
      [] OTHER                  -> T_str

\* ParameterInfo(name=qp["name"], type_hint=python_type, required=qp["required"], ...)
ParameterInfo(qp) ==
    [ name        |-> qp.name,
      type_hint   |-> type_map(qp.schema_type),
      required    |-> qp.required,
      description |-> qp.description ]

NoResourceSpec ==
    [ resource_name |-> <<>>, uri_template |-> <<>>, method_name |-> <<>>, api_var_name |-> <<>>,
      path_params |-> <<>>, query_params |-> <<>>, description |-> <<>>, mime_type |-> <<>> ]

\* generate_resource_for_endpoint was not called yet; it returned None; it returned
\* a ResourceSpec.
NotGenerated == [done |-> FALSE, is_none |-> FALSE, spec |-> NoResourceSpec]
ReturnedNone == [done |-> TRUE, is_none |-> TRUE, spec |-> NoResourceSpec]
ReturnedSpec(spec) == [done |-> TRUE, is_none |-> FALSE, spec |-> spec]

\* resource_name: the last path segment that is no parameter, or, for a path of
\* parameters only, operation_id.replace("get", "").replace("_", "-").lower()
ResourceName(endpoint) ==
    LET path_segments == MeaningfulSegments(SplitSlash(endpoint.path))
    IN  IF path_segments = <<>>
        THEN Lower(Replace(Replace(endpoint.operation_id, W_get, <<>>), Underscore, <<"-">>))
        ELSE path_segments[Len(path_segments)]

HasPathParams(endpoint) == endpoint.path_params # <<>>

\* has_params = bool(path_params or query_params_raw)
HasParams(endpoint) == endpoint.path_params # <<>> \/ endpoint.query_params # <<>>

\* generate_resource_for_endpoint(api_var_name, resource_endpoint, method_name)
generate_resource_for_endpoint(api_var_name, endpoint, method_name) ==
    LET resource_name == ResourceName(endpoint)
        uri_path == LStripSlash(endpoint.path)
        has_params == HasParams(endpoint)
        query_param_names == [i \in 1..Len(endpoint.query_params) |-> endpoint.query_params[i].name]
        uri_template ==
            IF query_param_names # <<>>
            THEN resource_name \o <<":", "/", "/">> \o uri_path
                    \o <<"{", "?">> \o JoinComma(query_param_names) \o <<"}">>
            ELSE resource_name \o <<":", "/", "/">> \o uri_path
    IN  IF ~has_params THEN ReturnedNone
        ELSE IF query_param_names = <<>> /\ endpoint.path_params = <<>> THEN ReturnedNone
        ELSE ReturnedSpec(
                [ resource_name |-> resource_name,
                  uri_template  |-> uri_template,
                  method_name   |-> method_name,
                  api_var_name  |-> api_var_name,
                  path_params   |-> endpoint.path_params,
                  query_params  |-> [i \in 1..Len(endpoint.query_params) |->
                                        ParameterInfo(endpoint.query_params[i])],
                  description   |-> IF endpoint.summary # <<>> THEN endpoint.summary
                                    ELSE endpoint.description,
                  mime_type     |-> T_application_json ])

\* One parameter of the rendered function: its name, its annotation, and its
\* default (has_default false for a parameter without one).
FuncParam(name, annotation, has_default, default) ==
    [name |-> name, annotation |-> annotation, has_default |-> has_default, default |-> default]

\* The signature render_resource builds: ctx, the path parameters as str, every
\* query parameter as `<type> | None` with the default None or 0.
FuncParams(spec) ==
    <<FuncParam(T_ctx, T_Context, FALSE, <<>>)>>
    \o [i \in 1..Len(spec.path_params) |-> FuncParam(spec.path_params[i], T_str, FALSE, <<>>)]
    \o [i \in 1..Len(spec.query_params) |->
            FuncParam(spec.query_params[i].name,
                      spec.query_params[i].type_hint \o <<" ", "|", " ">> \o T_None,
                      TRUE,
                      IF Contains(spec.query_params[i].type_hint, T_str) THEN T_None ELSE T_zero)]

\* The keyword arguments of the API call in the rendered function
CallArgs(spec) ==
    spec.path_params \o [i \in 1..Len(spec.query_params) |-> spec.query_params[i].name]

NotRendered == [done |-> FALSE, func_params |-> <<>>, call_args |-> <<>>]

\* render_resource(spec)
render_resource(spec) == [done |-> TRUE, func_params |-> FuncParams(spec), call_args |-> CallArgs(spec)]

(***************************************************************************)
(* Inputs of the resource generation                                       *)
(***************************************************************************)

MaxQueryParams == 2

P_health == <<"/", "h", "e", "a", "l", "t", "h">>
P_pet_petId == <<"/", "p", "e", "t", "/", "{", "p", "e", "t", "I", "d", "}">>
P_id == <<"/", "{", "i", "d", "}">>
P_pet_findByStatus == <<"/", "p", "e", "t", "/", "f", "i", "n", "d", "B", "y", "S", "t", "a", "t", "u", "s">>

Q_petId == <<"p", "e", "t", "I", "d">>
Q_id == <<"i", "d">>
Q_status == <<"s", "t", "a", "t", "u", "s">>
Q_limit == <<"l", "i", "m", "i", "t">>
Q_tags == <<"t", "a", "g", "s">>
O_getHealth == <<"g", "e", "t", "H", "e", "a", "l", "t", "h">>
O_get_by_id == <<"g", "e", "t", "_", "b", "y", "_", "i", "d">>

\* The query parameters get_resource_endpoints may list: name, required, schema
\* type, description.
QueryParamPool ==
    { [name |-> Q_status, required |-> TRUE,  schema_type |-> "string",  description |-> Q_status],
      [name |-> Q_limit,  required |-> FALSE, schema_type |-> "integer", description |-> <<>>],
      [name |-> Q_tags,   required |-> TRUE,  schema_type |-> "array",   description |-> <<>>],
      [name |-> Q_id,     required |-> FALSE, schema_type |-> "uuid",    description |-> <<>>] }

QueryParamLists ==
    UNION { { q \in [1..n -> QueryParamPool] : \A i, j \in 1..n : i # j => q[i] # q[j] }
            : n \in 0..MaxQueryParams }

\* A path with the parameters named in it, or with none declared
PathsWithParams ==
    { <<P_health, <<>>>>, <<P_pet_findByStatus, <<>>>>,
      <<P_pet_petId, <<Q_petId>>>>, <<P_pet_petId, <<>>>>, <<P_id, <<Q_id>>>> }

ResourceEndpoints ==
    { [ path |-> pp[1], operation_id |-> op, summary |-> sm, description |-> Q_status,
        path_params |-> pp[2], query_params |-> q ]
      : pp \in PathsWithParams, op \in {O_getHealth, O_get_by_id},
        sm \in {<<>>, Q_tags}, q \in QueryParamLists }

ResourceInit ==
    /\ resource_endpoint \in ResourceEndpoints
    /\ resource_spec = NotGenerated
    /\ resource_code = NotRendered

ResourceIdle ==
    /\ resource_endpoint = [ path |-> <<>>, operation_id |-> <<>>, summary |-> <<>>,
                             description |-> <<>>, path_params |-> <<>>, query_params |-> <<>> ]
    /\ resource_spec = NotGenerated
    /\ resource_code = NotRendered

\* resource_spec = generate_resource_for_endpoint(api_var_name, endpoint, method_name)
GenerateResourceForEndpoint ==
    /\ ~resource_spec.done
    /\ resource_spec' = generate_resource_for_endpoint(<<"a", "p", "i">>, resource_endpoint,
                                                       camel_to_snake(resource_endpoint.operation_id))
    /\ UNCHANGED <<resource_endpoint, resource_code, otherThanResource>>

\* if resource_spec: resource_code = render_resource(resource_spec)
RenderResource ==
    /\ resource_spec.done /\ ~resource_spec.is_none
    /\ ~resource_code.done
    /\ resource_code' = render_resource(resource_spec.spec)
    /\ UNCHANGED <<resource_endpoint, resource_spec, otherThanResource>>

ResourceNext ==
    \/ GenerateResourceForEndpoint
    \/ RenderResource

(***************************************************************************)
(* API metadata: introspection.get_api_metadata                            *)
(***************************************************************************)

\* str.strip() of blanks
RECURSIVE LStripBlank(_)
LStripBlank(s) == IF s # <<>> /\ Head(s) = " " THEN LStripBlank(Tail(s)) ELSE s

RECURSIVE RStripBlank(_)
RStripBlank(s) ==
    IF s # <<>> /\ s[Len(s)] = " " THEN RStripBlank(SubSeq(s, 1, Len(s) - 1)) ELSE s

Strip(s) == LStripBlank(RStripBlank(s))

\* [line.strip() for line in doc.strip().split("\n") if line.strip()]
RECURSIVE NonEmptyLines(_)
NonEmptyLines(lines) ==
    IF lines = <<>> THEN <<>>
    ELSE IF Strip(Head(lines)) # <<>>
         THEN <<Strip(Head(lines))>> \o NonEmptyLines(Tail(lines))
         ELSE NonEmptyLines(Tail(lines))

S_Generated_API == <<"G", "e", "n", "e", "r", "a", "t", "e", "d", " ", "A", "P", "I">>
S_0_0_1 == <<"0", ".", "0", ".", "1">>

\* ApiMetadata(): every field at its default
DefaultApiMetadata ==
    [ title            |-> PyStr(S_Generated_API),
      description      |-> PyStr(<<>>),
      version          |-> PyStr(S_0_0_1),
      contact          |-> PyDict(<<>>),
      license          |-> PyDict(<<>>),
      terms_of_service |-> PyNone,
      servers          |-> PyList(<<>>),
      external_docs    |-> PyDict(<<>>),
      tags             |-> PyList(<<>>),
      icon_url         |-> PyNone,
      icon_emoji       |-> PyNone ]

NoMetadataResult == [done |-> FALSE, raised |-> FALSE, metadata |-> DefaultApiMetadata]
ReturnedMetadata(metadata) == [done |-> TRUE, raised |-> FALSE, metadata |-> metadata]

\* Title, description and version as the client package gives them: the first two
\* non-empty lines of its docstring, its __version__.
ClientMetadata(package) ==
    LET lines == IF package.has_doc THEN NonEmptyLines(package.doc) ELSE <<>>
    IN  [DefaultApiMetadata EXCEPT
            !.title = IF lines # <<>> THEN PyStr(lines[1]) ELSE @,
            !.description = IF Len(lines) > 1 THEN PyStr(lines[2]) ELSE @,
            !.version = IF package.has_version THEN PyStr(package.version) ELSE @]

\* icon_url from info["x-logo"] (a dict's url, or a string) and info["x-icon"]
IconUrl(info) ==
    LET logo == DictGet(info, "x-logo", PyNone)
        from_logo == IF ~DictHas(info, "x-logo") THEN PyNone
                     ELSE IF logo.type = "dict" THEN DictGet(logo, "url", PyNone)
                     ELSE IF logo.type = "str" THEN logo
                     ELSE PyNone
    IN  IF DictHas(info, "x-icon") /\ ~Truthy(from_logo) THEN DictGet(info, "x-icon", PyNone)
        ELSE from_logo

\* The fields the document overrides or adds, for a document spec that is a dict
\* whose info is a dict
WithDocumentMetadata(metadata, spec) ==
    LET info == DictGet(spec, "info", PyDict(<<>>))
    IN  [metadata EXCEPT
            !.title = IF Truthy(DictGet(info, "title", PyNone)) THEN DictGet(info, "title", PyNone) ELSE @,
            !.description = IF Truthy(DictGet(info, "description", PyNone))
                            THEN DictGet(info, "description", PyNone) ELSE @,
            !.version = IF Truthy(DictGet(info, "version", PyNone))
                        THEN DictGet(info, "version", PyNone) ELSE @,
            !.contact = DictGet(info, "contact", PyDict(<<>>)),
            !.license = DictGet(info, "license", PyDict(<<>>)),
            !.terms_of_service = DictGet(info, "termsOfService", PyNone),
            !.servers = DictGet(spec, "servers", PyList(<<>>)),
            !.external_docs = DictGet(spec, "externalDocs", PyDict(<<>>)),
            !.tags = DictGet(spec, "tags", PyList(<<>>)),
            !.icon_url = IconUrl(info),
            !.icon_emoji = DictGet(info, "x-icon-emoji", PyNone)]

\* get_api_metadata: everything runs inside try/except Exception, which returns
\* ApiMetadata(). The import of the client package, spec.get on a document that is
\* no dict and info.get on an info that is no dict raise inside it.
get_api_metadata(package, file) ==
    IF ~package.importable THEN ReturnedMetadata(DefaultApiMetadata)
    ELSE LET spec == load_openapi_spec(file)
         IN  IF ~file.exists \/ ~Truthy(spec) THEN ReturnedMetadata(ClientMetadata(package))
             ELSE IF spec.type # "dict" THEN ReturnedMetadata(DefaultApiMetadata)
             ELSE IF DictGet(spec, "info", PyDict(<<>>)).type # "dict"
                  THEN ReturnedMetadata(DefaultApiMetadata)
             ELSE ReturnedMetadata(WithDocumentMetadata(ClientMetadata(package), spec))

(***************************************************************************)
(* Inputs of the metadata extraction                                       *)
(***************************************************************************)

MaxDocLines == 2

S_Pet_Store == <<"P", "e", "t", " ", "S", "t", "o", "r", "e">>
S_A_store == <<" ", "A", " ", "s", "t", "o", "r", "e", " ">>
S_1_2_3 == <<"1", ".", "2", ".", "3">>
S_Petstore == <<"P", "e", "t", "s", "t", "o", "r", "e">>
S_2_0 == <<"2", ".", "0">>

\* The lines a docstring of the client package may have
DocLines ==
    UNION { [1..n -> {<<>>, <<" ">>, S_Pet_Store, S_A_store}] : n \in 0..MaxDocLines }

NoClientPackage ==
    [importable |-> FALSE, has_doc |-> FALSE, doc |-> <<>>, has_version |-> FALSE, version |-> <<>>]

\* No importable openapi_client; one without docstring; one with each docstring;
\* each with and without __version__.
ClientPackages ==
    { NoClientPackage }
    \cup { [importable |-> TRUE, has_doc |-> FALSE, doc |-> <<>>, has_version |-> hv,
            version |-> IF hv THEN S_1_2_3 ELSE <<>>] : hv \in BOOLEAN }
    \cup { [importable |-> TRUE, has_doc |-> TRUE, doc |-> lines, has_version |-> hv,
            version |-> IF hv THEN S_1_2_3 ELSE <<>>] : hv \in BOOLEAN, lines \in DocLines }

\* What a document may have under "info"
InfoValues ==
    { PyNone, PyList(<<PyStr(S_Petstore)>>), PyDict(<<>>),
      PyDict(<<KV("title", PyStr(S_Petstore)), KV("version", PyStr(S_2_0))>>),
      PyDict(<<KV("title", PyStr(<<>>)), KV("description", PyStr(S_Petstore)),
               KV("x-logo", PyDict(<<KV("url", PyStr(S_url))>>)), KV("x-icon", PyStr(S_http))>>),
      PyDict(<<KV("x-logo", PyStr(S_url)), KV("x-icon-emoji", PyStr(S_http))>>),
      PyDict(<<KV("x-logo", PyList(<<>>)), KV("x-icon", PyStr(S_http))>>) }

MetadataDocuments ==
    NonMappingDocuments
    \cup { PyDict(i \o sv) :
             i \in {<<>>} \cup { <<KV("info", v)>> : v \in InfoValues },
             sv \in {<<>>, <<KV("servers", PyList(<<PyDict(<<KV("url", PyStr(S_url))>>)>>))>>} }

MetadataFiles ==
    { NoFile,
      [NoFile EXCEPT !.exists = TRUE],
      [NoFile EXCEPT !.exists = TRUE, !.readable = TRUE] }
    \cup { JsonFile(doc) : doc \in MetadataDocuments }

MetadataInit ==
    /\ client_package \in ClientPackages
    /\ api_metadata = NoMetadataResult
    /\ openapi_file \in MetadataFiles
    /\ security_result = NoSecurityResult

MetadataIdle ==
    /\ client_package = NoClientPackage
    /\ api_metadata = NoMetadataResult

\* One call of get_api_metadata(base_dir)
GetApiMetadata ==
    /\ ~api_metadata.done
    /\ api_metadata' = get_api_metadata(client_package, openapi_file)
    /\ UNCHANGED <<client_package, otherThanMetadata>>

MetadataNext ==
    \/ GetApiMetadata

(***************************************************************************)
(* The local server registry: register_mcp (register-mcp add / remove) and *)
(* run_mcp (run-mcp <server_name>). A path is the sequence of its          *)
(* components; an environment variable that is unset or empty is <<>>.     *)
(***************************************************************************)

\* Path.home() / ".mcp-generator" / "servers.json"
HomeRegistryPath == <<"~", ".mcp-generator", "servers.json">>

\* register_mcp.get_registry_path: MCP_REGISTRY_PATH, else
\* XDG_DATA_HOME/mcp-generator/servers.json, else the path under the home directory
register_get_registry_path(env) ==
    IF env.MCP_REGISTRY_PATH # <<>> THEN env.MCP_REGISTRY_PATH
    ELSE IF env.XDG_DATA_HOME # <<>> THEN env.XDG_DATA_HOME \o <<"mcp-generator", "servers.json">>
    ELSE HomeRegistryPath

\* run_mcp.get_registry_path
run_get_registry_path(env) == HomeRegistryPath

NoRegistryFile == [exists |-> FALSE, loads |-> FALSE, servers |-> <<>>]

\* json.dump(registry, f) into the file
SavedRegistry(registry) == [exists |-> TRUE, loads |-> TRUE, servers |-> registry]

\* load_registry / load_local_registry on the file at a path: {} when the file is
\* missing or json.load fails
LoadedRegistry(file) == IF file.exists /\ file.loads THEN file.servers ELSE <<>>

\* register_mcp.load_registry()
load_registry(files, env) == LoadedRegistry(files[register_get_registry_path(env)])

\* run_mcp.load_local_registry()
load_local_registry(files, env) == LoadedRegistry(files[run_get_registry_path(env)])

\* registry[server_name] = info
RegistryWith(registry, server_name, info) ==
    [n \in (DOMAIN registry) \cup {server_name} |-> IF n = server_name THEN info ELSE registry[n]]

\* del registry[server_name]
RegistryWithout(registry, server_name) ==
    [n \in (DOMAIN registry) \ {server_name} |-> registry[n]]

NoRegistryOp == [op |-> "none", server_name |-> "", exit_code |-> 0]

\* What one command did: which command, on which server name, its exit status
RegistryOp(op, server_name, exit_code) ==
    [op |-> op, server_name |-> server_name, exit_code |-> exit_code]

(***************************************************************************)
(* Inputs of the registry commands                                         *)
(***************************************************************************)

\* Number of commands in one history
MaxRegistryOps == 3

ServerNames == {"petstore", "users"}

\* The server directories register-mcp add may be pointed at: the directory and
\* pyproject.toml exist or not, the file parses or not, and the mcp_servers entry
\* points in file order.
NoProject == [exists |-> FALSE, has_pyproject |-> FALSE, parses |-> FALSE, entry_points |-> <<>>]

Projects ==
    { NoProject,
      [NoProject EXCEPT !.exists = TRUE],
      [NoProject EXCEPT !.exists = TRUE, !.has_pyproject = TRUE],
      [NoProject EXCEPT !.exists = TRUE, !.has_pyproject = TRUE, !.parses = TRUE] }
    \cup { [exists |-> TRUE, has_pyproject |-> TRUE, parses |-> TRUE,
            entry_points |-> <<[name |-> n, entry_point |-> "server:main"]>>] : n \in ServerNames }
    \cup { [exists |-> TRUE, has_pyproject |-> TRUE, parses |-> TRUE,
            entry_points |-> <<[name |-> "users", entry_point |-> "users:main"],
                               [name |-> "petstore", entry_point |-> "server:main"]>>] }

RegistryPaths ==
    { HomeRegistryPath, <<"data", "mcp-generator", "servers.json">>, <<"tmp", "registry.json">> }

Environments ==
    { [MCP_REGISTRY_PATH |-> m, XDG_DATA_HOME |-> x]
        : m \in {<<>>, <<"tmp", "registry.json">>, HomeRegistryPath},
          x \in {<<>>, <<"data">>} }

RegistryInit ==
    /\ environ \in Environments
    /\ registry_files \in
         { [p \in RegistryPaths |-> IF p = HomeRegistryPath THEN home ELSE NoRegistryFile]
             : home \in { NoRegistryFile,
                          [NoRegistryFile EXCEPT !.exists = TRUE],
                          SavedRegistry([n \in {"users"} |-> "users:main"]) } }
    /\ registry_op = NoRegistryOp
    /\ registry_ops = 0

RegistryIdle ==
    /\ environ = [MCP_REGISTRY_PATH |-> <<>>, XDG_DATA_HOME |-> <<>>]
    /\ registry_files = [p \in RegistryPaths |-> NoRegistryFile]
    /\ registry_op = NoRegistryOp
    /\ registry_ops = 0

\* register-mcp add <path>: register_server(server_path). The server name is the
\* first mcp_servers entry point.
RegisterServer ==
    /\ registry_ops < MaxRegistryOps
    /\ registry_ops' = registry_ops + 1
    /\ \E project \in Projects :
          IF \/ ~project.exists \/ ~project.has_pyproject \/ ~project.parses
             \/ project.entry_points = <<>>
          THEN /\ registry_op' = RegistryOp("add", "", 1)
               /\ UNCHANGED registry_files
          ELSE LET server_name == project.entry_points[1].name
                   registry == load_registry(registry_files, environ)
               IN  /\ registry_files' =
                        [registry_files EXCEPT ![register_get_registry_path(environ)] =
                            SavedRegistry(RegistryWith(registry, server_name,
                                                       project.entry_points[1].entry_point))]
                   /\ registry_op' = RegistryOp("add", server_name, 0)
    /\ UNCHANGED <<environ, otherThanRegistry>>

\* register-mcp remove <name>: unregister_server(server_name)
UnregisterServer ==
    /\ registry_ops < MaxRegistryOps
    /\ registry_ops' = registry_ops + 1
    /\ \E server_name \in ServerNames :
          LET registry == load_registry(registry_files, environ)
          IN  IF server_name \notin DOMAIN registry
              THEN /\ registry_op' = RegistryOp("remove", server_name, 1)
                   /\ UNCHANGED registry_files
              ELSE /\ registry_files' =
                        [registry_files EXCEPT ![register_get_registry_path(environ)] =
                            SavedRegistry(RegistryWithout(registry, server_name))]
                   /\ registry_op' = RegistryOp("remove", server_name, 0)
    /\ UNCHANGED <<environ, otherThanRegistry>>

\* run-mcp <server_name>: main() up to the lookup of the server; exit status 1 when
\* the name is not in the registry it loaded
RunMcp ==
    /\ registry_ops < MaxRegistryOps
    /\ registry_ops' = registry_ops + 1
    /\ \E server_name \in ServerNames :
          registry_op' = RegistryOp("run", server_name,
              IF server_name \in DOMAIN load_local_registry(registry_files, environ) THEN 0 ELSE 1)
    /\ UNCHANGED <<environ, registry_files, otherThanRegistry>>

RegistryNext ==
    \/ RegisterServer
    \/ UnregisterServer
    \/ RunMcp

(***************************************************************************)
(* The generated cache module: CacheMiddleware of                          *)
(* templates/cache_middleware.py on a storage backend of                   *)
(* templates/storage_backend.py. Time is counted in seconds.               *)
(***************************************************************************)

\* Argument values a tool is called with: the int 1, the list [1] and the
\* tuple (1,)
A_int   == [type |-> "int",   text |-> "1"]
A_list  == [type |-> "list",  text |-> "1"]
A_tuple == [type |-> "tuple", text |-> "1"]

\* json.dumps of one value: a str is quoted, a list and a tuple are both written
\* as an array
JsonDumpsValue(v) ==
    CASE v.type = "int"   -> <<v.text>>
      [] v.type = "str"   -> <<"\"", v.text, "\"">>
      [] v.type = "list"  -> <<"[", v.text, "]">>
      [] v.type = "tuple" -> <<"[", v.text, "]">>

\* json.dumps(args, sort_keys=True, default=str) of the tuple of positional
\* arguments
RECURSIVE JsonDumpsItems(_)
JsonDumpsItems(args) ==
    IF args = <<>> THEN <<>>
    ELSE IF Len(args) = 1 THEN JsonDumpsValue(args[1])
    ELSE JsonDumpsValue(args[1]) \o <<", ">> \o JsonDumpsItems(Tail(args))

JsonDumpsArgs(args) == <<"[">> \o JsonDumpsItems(args) \o <<"]">>

\* CacheMiddleware._generate_cache_key: "cache:<tool_name>:<hash>", the hash taken
\* of tool_name, "|" and the JSON text of the arguments when there are any. The
\* hash (16 hex digits of SHA-256) is kept as the text it is computed from: it
\* is equal for equal texts, and distinct for the distinct texts used here.
generate_cache_key(tool_name, args) ==
    [ tool_name |-> tool_name,
      key_hash  |-> IF args # <<>> THEN <<tool_name, "|">> \o JsonDumpsArgs(args)
                    ELSE <<tool_name>> ]

\* ttl: Optional[int]
NoTtl == [given |-> FALSE, seconds |-> 0]
Ttl(seconds) == [given |-> TRUE, seconds |-> seconds]

\* CacheMiddleware(storage, default_ttl): the default TTL the cache is built with
default_ttl == 2

\* ttl if ttl is not None else self.default_ttl
EffectiveTtl(ttl) == IF ttl.given THEN ttl.seconds ELSE default_ttl

\* cache_entry of CacheMiddleware.set
CacheEntry(data, now, ttl) ==
    [data |-> data, cached_at |-> now, expires_at |-> now + EffectiveTtl(ttl),
     ttl |-> EffectiveTtl(ttl)]

\* storage.set(cache_key, cache_entry): InMemoryStorage keeps the entry;
\* FilesystemStorage calls value.encode on it, which raises AttributeError for the
\* dict, so that nothing is written.
StorageSetRaises(backend) == backend = "filesystem"

StorageSet(store, key, entry) ==
    [k \in (DOMAIN store) \cup {key} |-> IF k = key THEN entry ELSE store[k]]

\* storage.delete(cache_key)
StorageDelete(store, key) == [k \in (DOMAIN store) \ {key} |-> store[k]]

\* CacheMiddleware.set: the store afterwards
CacheSetStore(backend, store, now, tool_name, data, ttl, args) ==
    IF StorageSetRaises(backend) THEN store
    ELSE StorageSet(store, generate_cache_key(tool_name, args), CacheEntry(data, now, ttl))

\* The entry CacheMiddleware.get finds is expired: expires_at < now
FindsExpired(store, now, tool_name, args) ==
    /\ generate_cache_key(tool_name, args) \in DOMAIN store
    /\ store[generate_cache_key(tool_name, args)].expires_at < now

\* CacheMiddleware.get: the value returned
CacheGetValue(store, now, tool_name, args) ==
    IF generate_cache_key(tool_name, args) \notin DOMAIN store THEN PyNone
    ELSE IF FindsExpired(store, now, tool_name, args) THEN PyNone
    ELSE store[generate_cache_key(tool_name, args)].data

\* A cached value counts for the wrapper of cached(): cached_result is not None
CountsAsCached(cached_result) == cached_result # PyNone

\* CacheMiddleware.get: the store afterwards (an expired entry is deleted)
CacheGetStore(store, now, tool_name, args) ==
    IF FindsExpired(store, now, tool_name, args)
    THEN StorageDelete(store, generate_cache_key(tool_name, args))
    ELSE store

\* What is known of the calls so far, per tool name and arguments: the most recent
\* set that no invalidate of the same tool name and arguments and no clear_all
\* followed, with its time and TTL
NoRecentSet == [has |-> FALSE, data |-> PyNone, set_at |-> 0, ttl |-> 0]
RecentSet(data, now, ttl) == [has |-> TRUE, data |-> data, set_at |-> now, ttl |-> EffectiveTtl(ttl)]

NoCacheResult ==
    [op |-> "none", tool_name |-> "", args |-> <<>>, value |-> PyNone, ok |-> FALSE, at |-> 0,
     found_expired |-> FALSE]

CacheResult(op, tool_name, args, value, ok, at, found_expired) ==
    [op |-> op, tool_name |-> tool_name, args |-> args, value |-> value, ok |-> ok, at |-> at,
     found_expired |-> found_expired]

NoWrapperCall ==
    [done |-> FALSE, args |-> <<>>, executed |-> FALSE, result |-> PyNone, cached_before |-> FALSE]

(***************************************************************************)
(* Inputs of the cache                                                     *)
(***************************************************************************)

\* Number of cache operations, and seconds, in one history
MaxCacheOps == 3
MaxTime == 3

ToolNames == {"test_tool"}
ArgTuples == { <<A_int>>, <<A_list>>, <<A_tuple>> }
CacheData == { PyStr(<<"a">>), PyStr(<<"b">>) }
Ttls == { NoTtl, Ttl(1) }
Backends == {"memory", "filesystem"}

\* What the decorated function returns: None, a string, the empty string
ReturnValues == { PyNone, PyStr(<<"r">>), PyStr(<<>>) }

CacheStart ==
    /\ cache_backend \in Backends
    /\ cache_store = <<>>
    /\ cache_now = 0
    /\ cache_calls = [c \in ToolNames \X ArgTuples |-> NoRecentSet]
    /\ cache_ops = 0

CacheInit ==
    /\ CacheStart
    /\ cache_result = NoCacheResult
    /\ fn_return = PyNone
    /\ decorator_ttl = NoTtl
    /\ fn_executions = 0
    /\ wrapper_call = NoWrapperCall

CachedInit ==
    /\ CacheStart
    /\ cache_result = NoCacheResult
    /\ fn_return \in ReturnValues
    /\ decorator_ttl \in Ttls
    /\ fn_executions = 0
    /\ wrapper_call = NoWrapperCall

CacheIdle ==
    /\ cache_backend = "memory"
    /\ cache_store = <<>>
    /\ cache_now = 0
    /\ cache_calls = [c \in ToolNames \X ArgTuples |-> NoRecentSet]
    /\ cache_ops = 0
    /\ cache_result = NoCacheResult
    /\ fn_return = PyNone
    /\ decorator_ttl = NoTtl
    /\ fn_executions = 0
    /\ wrapper_call = NoWrapperCall

\* One second passes.
CacheTick ==
    /\ cache_now < MaxTime
    /\ cache_now' = cache_now + 1
    /\ UNCHANGED <<cache_backend, cache_store, cache_calls, cache_result, cache_ops,
                   fn_return, decorator_ttl, fn_executions, wrapper_call, otherThanCache>>

\* await cache.set(tool_name, data, ttl, *args)
CacheSet ==
    /\ cache_ops < MaxCacheOps
    /\ cache_ops' = cache_ops + 1
    /\ \E tool_name \in ToolNames, args \in ArgTuples, data \in CacheData, ttl \in Ttls :
          /\ cache_store' = CacheSetStore(cache_backend, cache_store, cache_now, tool_name,
                                          data, ttl, args)
          /\ cache_calls' = [cache_calls EXCEPT ![<<tool_name, args>>] =
                                RecentSet(data, cache_now, ttl)]
          /\ cache_result' = CacheResult("set", tool_name, args, PyNone,
                                         ~StorageSetRaises(cache_backend), cache_now, FALSE)
    /\ UNCHANGED <<cache_backend, cache_now, fn_return, decorator_ttl, fn_executions,
                   wrapper_call, otherThanCache>>

\* await cache.get(tool_name, *args)
CacheGet ==
    /\ cache_ops < MaxCacheOps
    /\ cache_ops' = cache_ops + 1
    /\ \E tool_name \in ToolNames, args \in ArgTuples :
          /\ cache_result' = CacheResult("get", tool_name, args,
                                 CacheGetValue(cache_store, cache_now, tool_name, args), TRUE,
                                 cache_now, FindsExpired(cache_store, cache_now, tool_name, args))
          /\ cache_store' = CacheGetStore(cache_store, cache_now, tool_name, args)
    /\ UNCHANGED <<cache_backend, cache_now, cache_calls, fn_return, decorator_ttl,
                   fn_executions, wrapper_call, otherThanCache>>

\* await cache.invalidate(tool_name, *args)
CacheInvalidate ==
    /\ cache_ops < MaxCacheOps
    /\ cache_ops' = cache_ops + 1
    /\ \E tool_name \in ToolNames, args \in ArgTuples :
          /\ cache_store' = StorageDelete(cache_store, generate_cache_key(tool_name, args))
          /\ cache_calls' = [cache_calls EXCEPT ![<<tool_name, args>>] = NoRecentSet]
          /\ cache_result' = CacheResult("invalidate", tool_name, args, PyNone, TRUE, cache_now, FALSE)
    /\ UNCHANGED <<cache_backend, cache_now, fn_return, decorator_ttl, fn_executions,
                   wrapper_call, otherThanCache>>

\* await cache.clear_all()
CacheClearAll ==
    /\ cache_ops < MaxCacheOps
    /\ cache_ops' = cache_ops + 1
    /\ cache_store' = <<>>
    /\ cache_calls' = [c \in ToolNames \X ArgTuples |-> NoRecentSet]
    /\ cache_result' = CacheResult("clear_all", "", <<>>, PyNone, TRUE, cache_now, FALSE)
    /\ UNCHANGED <<cache_backend, cache_now, fn_return, decorator_ttl, fn_executions,
                   wrapper_call, otherThanCache>>

\* One call of a function decorated with @cache.cached(ttl): the wrapper reads the
\* cache, returns what it found unless that is None, else executes the function
\* and caches its result.
CallCached ==
    /\ cache_ops < MaxCacheOps
    /\ cache_ops' = cache_ops + 1
    /\ \E tool_name \in ToolNames, args \in ArgTuples :
          LET cached_result == CacheGetValue(cache_store, cache_now, tool_name, args)
              after_get == CacheGetStore(cache_store, cache_now, tool_name, args)
              recent == cache_calls[<<tool_name, args>>]
              cached_before == recent.has /\ cache_now <= recent.set_at + recent.ttl
          IN  IF CountsAsCached(cached_result)
              THEN /\ wrapper_call' = [done |-> TRUE, args |-> args, executed |-> FALSE,
                                       result |-> cached_result, cached_before |-> cached_before]
                   /\ cache_store' = after_get
                   /\ UNCHANGED <<fn_executions, cache_calls>>
              ELSE /\ wrapper_call' = [done |-> TRUE, args |-> args, executed |-> TRUE,
                                       result |-> fn_return, cached_before |-> cached_before]
                   /\ fn_executions' = fn_executions + 1
                   /\ cache_store' = CacheSetStore(cache_backend, after_get, cache_now, tool_name,
                                                   fn_return, decorator_ttl, args)
                   /\ cache_calls' = [cache_calls EXCEPT ![<<tool_name, args>>] =
                                         IF cached_before THEN @
                                         ELSE RecentSet(fn_return, cache_now, decorator_ttl)]
    /\ UNCHANGED <<cache_backend, cache_now, cache_result, fn_return, decorator_ttl,
                   otherThanCache>>

CacheNext ==
    \/ CacheTick
    \/ CacheSet
    \/ CacheGet
    \/ CacheInvalidate
    \/ CacheClearAll

CachedNext ==
    \/ CacheTick
    \/ CallCached

(***************************************************************************)
(* A call of a rendered handler: the tool function _render_tool emits and  *)
(* the resource function render_resource emits                             *)
(***************************************************************************)

\* An element of a list or tuple response: to_dict is "absent", an "attribute"
\* that is not callable, or a "method"; jsonable: json.dumps accepts it.
Item(id, to_dict, jsonable) == [id |-> id, to_dict |-> to_dict, jsonable |-> jsonable]

\* What the API operation returns: an instance of cls ("object" stands for every
\* class that is none of the others), its to_dict, its elements, whether it has
\* __dict__, and whether dict(response) raises.
Response(cls, to_dict, items, has_dict, dict_raises) ==
    [cls |-> cls, to_dict |-> to_dict, items |-> items, has_dict |-> has_dict,
     dict_raises |-> dict_raises]

\* The value a handler computes from the response: how it was made, and for a
\* list how each element was made
Result(how, items) == [how |-> how, items |-> items]

NoResult == Result("unset", <<>>)

\* Mutant of HasCallableToDict: hasattr(x, 'to_dict') alone.
HasToDictAttribute(x) == x.to_dict # "absent"

\* hasattr(x, 'to_dict') and callable(x.to_dict)
HasCallableToDict(x) == x.to_dict = "method"

\* The loop over a list response: item.to_dict() if it has a callable to_dict,
\* else the item
ConvertItems(items) ==
    [i \in 1..Len(items) |->
        [id |-> items[i].id,
         how |-> IF HasCallableToDict(items[i]) THEN "to_dict" ELSE "unchanged"]]

\* list(response)
ListOf(items) == [i \in 1..Len(items) |-> [id |-> items[i].id, how |-> "unchanged"]]

\* isinstance(response, (dict, str, int, float, bool))
IsPrimitiveOrDict(response) == response.cls \in {"dict", "str", "int", "float", "bool"}

\* The if/elif chain of the tool function that converts the response
NormalizeResponse(response) ==
    IF response.cls = "NoneType" THEN Result("None", <<>>)
    ELSE IF HasCallableToDict(response) THEN Result("to_dict", <<>>)
    ELSE IF response.cls = "list" THEN Result("list", ConvertItems(response.items))
    ELSE IF response.cls = "tuple"
         THEN (IF response.items # <<>> THEN Result("list", ListOf(response.items))
               ELSE Result("list", <<>>))
    ELSE IF IsPrimitiveOrDict(response) THEN Result("unchanged", <<>>)
    ELSE IF ~response.has_dict THEN Result("unchanged", <<>>)
    ELSE IF response.dict_raises THEN Result("str", <<>>)
    ELSE Result("dict", <<>>)

\* json.dumps(response, indent=2) raises TypeError for an element it cannot
\* serialize.
JsonDumpsRaises(response) ==
    response.cls = "list" /\ \E i \in 1..Len(response.items) : ~response.items[i].jsonable

\* The if/elif chain of the resource function that makes the JSON string
ResourceResult(response) ==
    IF response.cls = "NoneType" THEN Result("empty_object", <<>>)
    ELSE IF HasCallableToDict(response) THEN Result("json_to_dict", <<>>)
    ELSE IF response.cls \in {"dict", "list"} THEN Result("json", ListOf(response.items))
    ELSE Result("str", <<>>)

\* Exceptions: the class, for an ApiException its status and reason, and str(e)
NoException == [cls |-> "none", status |-> "", reason |-> "", message |-> <<>>]

ApiException(status, reason) ==
    [cls |-> "ApiException", status |-> status, reason |-> reason,
     message |-> <<"(", status, ")\nReason: ", reason>>]

RaisedException(cls, message) == [cls |-> cls, status |-> "", reason |-> "", message |-> message]

\* isinstance(e, cls): ApiException, ValueError and TypeError derive from Exception.
IsInstance(e, cls) == e.cls # "none" /\ (e.cls = cls \/ cls = "Exception")

\* Mutant of format_api_error: the generic text for every status.
format_api_error_generic(e) == <<"API error (status ", e.status, "): ", e.reason>>

\* _format_api_error
format_api_error(e) ==
    IF e.status = "401" THEN <<"Authentication required. User token invalid or missing.">>
    ELSE IF e.status = "403" THEN <<"Permission denied. Your role does not allow this action.">>
    ELSE IF e.status = "404" THEN <<"Resource not found.">>
    ELSE IF e.status = "500" THEN <<"Backend server error.">>
    ELSE <<"API error (status ", e.status, "): ", e.reason>>

\* The except clauses of the tool function, tried in order; an exception raised
\* inside a clause leaves the try statement.
ToolExcept(e) ==
    IF IsInstance(e, "ApiException")
    THEN RaisedException("Exception",
             <<"API Error: ">> \o format_api_error(e) \o <<" (status: ", e.status, ")">>)
    ELSE RaisedException("Exception", <<"Unexpected error: ">> \o e.message)

\* The except clause of the resource function: the error is logged, then `raise`.
ResourceExcept(e) == e

ClientNotAvailable ==
    RaisedException("Exception",
        <<"API client not available. Authentication middleware may not be configured.">>)

\* Mutant of ClientAvailable: `if openapi_client is None` instead of `if not openapi_client`.
ClientIsNotNone(openapi_client) == openapi_client # PyNone

\* The handler goes on when `not openapi_client` is false.
ClientAvailable(openapi_client) == Truthy(openapi_client)

\* What the API operation does when it is invoked
Returns(response) == [raises |-> FALSE, response |-> response, exception |-> NoException]
Raises(exception) ==
    [raises |-> TRUE, response |-> Response("NoneType", "absent", <<>>, FALSE, FALSE),
     exception |-> exception]

NotCalled ==
    [ pc |-> "start", client_read |-> FALSE, invoked |-> 0,
      response |-> Response("NoneType", "absent", <<>>, FALSE, FALSE),
      exception |-> NoException, caught |-> NoException,
      returned |-> FALSE, result |-> NoResult, raised |-> NoException ]

(***************************************************************************)
(* Inputs of a handler call                                                *)
(***************************************************************************)

\* Number of elements of a list or tuple response
MaxItems == 2

ItemPool ==
    { Item("plain", "absent", TRUE), Item("model", "method", FALSE),
      Item("odd", "attribute", FALSE) }

ItemLists == UNION { [1..n -> ItemPool] : n \in 0..MaxItems }

Responses ==
    { Response("NoneType", "absent", <<>>, FALSE, FALSE),
      Response("object", "method", <<>>, TRUE, TRUE),
      Response("object", "attribute", <<>>, TRUE, TRUE),
      Response("object", "absent", <<>>, FALSE, FALSE),
      Response("object", "absent", <<>>, TRUE, FALSE),
      Response("object", "absent", <<>>, TRUE, TRUE),
      Response("list", "method", <<>>, TRUE, TRUE),
      Response("dict", "absent", <<>>, FALSE, FALSE),
      Response("str", "absent", <<>>, FALSE, FALSE),
      Response("int", "absent", <<>>, FALSE, FALSE),
      Response("float", "absent", <<>>, FALSE, FALSE),
      Response("bool", "absent", <<>>, FALSE, FALSE) }
    \cup { Response("list", "absent", items, FALSE, FALSE) : items \in ItemLists }
    \cup { Response("tuple", "absent", items, FALSE, FALSE) : items \in ItemLists }

Statuses == {"400", "401", "403", "404", "500", "503"}

ApiBehaviours ==
    { Returns(response) : response \in Responses }
    \cup { Raises(ApiException(status, "reason")) : status \in Statuses }
    \cup { Raises(RaisedException("ValueError", <<"boom">>)) }

\* ctx.get_state('openapi_client'): None when the middleware set nothing, an empty
\* value, or a client
ClientStates == { PyNone, PyDict(<<>>), PyDict(<<KV("access_token", PyStr(<<"t">>))>>) }

HandlerInit ==
    /\ handler_kind \in {"tool", "resource"}
    /\ ctx_state \in ClientStates
    /\ api_behaviour \in ApiBehaviours
    /\ handler = NotCalled

HandlerIdle ==
    /\ handler_kind = "tool"
    /\ ctx_state = PyNone
    /\ api_behaviour = Returns(Response("NoneType", "absent", <<>>, FALSE, FALSE))
    /\ handler = NotCalled

\* openapi_client = ctx.get_state('openapi_client'), and the raise when it is empty
HandlerGetClient ==
    /\ handler.pc = "start"
    /\ handler' =
          IF ClientAvailable(ctx_state)
          THEN [handler EXCEPT !.pc = "call_api", !.client_read = TRUE]
          ELSE [handler EXCEPT !.pc = "except", !.exception = ClientNotAvailable]
    /\ UNCHANGED <<handler_kind, ctx_state, api_behaviour, otherThanHandler>>

\* response = <api>.<method>(<arguments>)
HandlerCallApi ==
    /\ handler.pc = "call_api"
    /\ handler' =
          IF api_behaviour.raises
          THEN [handler EXCEPT !.pc = "except", !.invoked = @ + 1,
                               !.exception = api_behaviour.exception]
          ELSE [handler EXCEPT !.pc = "convert", !.invoked = @ + 1,
                               !.response = api_behaviour.response]
    /\ UNCHANGED <<handler_kind, ctx_state, api_behaviour, otherThanHandler>>

\* The conversion of the response and the return statement
HandlerConvert ==
    /\ handler.pc = "convert"
    /\ handler' =
          IF handler_kind = "tool"
          THEN [handler EXCEPT !.pc = "done", !.returned = TRUE,
                               !.result = NormalizeResponse(handler.response)]
          ELSE IF JsonDumpsRaises(handler.response) /\ ~HasCallableToDict(handler.response)
          THEN [handler EXCEPT !.pc = "except",
                               !.exception = RaisedException("TypeError", <<"not JSON serializable">>)]
          ELSE [handler EXCEPT !.pc = "done", !.returned = TRUE,
                               !.result = ResourceResult(handler.response)]
    /\ UNCHANGED <<handler_kind, ctx_state, api_behaviour, otherThanHandler>>

\* The except clauses: the error is logged and an exception leaves the handler.
HandlerExcept ==
    /\ handler.pc = "except"
    /\ handler' = [handler EXCEPT
          !.pc = "done",
          !.caught = handler.exception,
          !.raised = IF handler_kind = "tool" THEN ToolExcept(handler.exception)
                     ELSE ResourceExcept(handler.exception)]
    /\ UNCHANGED <<handler_kind, ctx_state, api_behaviour, otherThanHandler>>

HandlerNext ==
    \/ HandlerGetClient
    \/ HandlerCallApi
    \/ HandlerConvert
    \/ HandlerExcept

(***************************************************************************)
(* generator.generate_modular_servers: one module per API class of the     *)
(* client package                                                          *)
(***************************************************************************)

\* str.upper() on one character
UpperChar(c) == IF IsLower(c) THEN Chars[Ord(c) - Ord("a") + Ord("A")] ELSE c

\* str.title(): a letter that follows no letter is upper-cased, every other letter
\* lower-cased
Title(s) ==
    [i \in 1..Len(s) |->
        IF i > 1 /\ (IsLower(s[i - 1]) \/ IsUpper(s[i - 1])) THEN LowerChar(s[i])
        ELSE UpperChar(s[i])]

W_api == <<"_", "a", "p", "i">>

\* str.endswith(suffix)
EndsWith(s, suffix) ==
    /\ Len(suffix) <= Len(s)
    /\ SubSeq(s, Len(s) - Len(suffix) + 1, Len(s)) = suffix

\* Mutant of ModuleNameOf: the variable name itself.
ModuleNameIsVarName(api_var_name) == api_var_name

\* module_name = api_var_name.replace("_api", "").title().replace("_", "")
ModuleNameOf(api_var_name) == Replace(Title(Replace(api_var_name, W_api, <<>>)), Underscore, <<>>)

\* filename = f"{api_var_name.replace('_api', '')}_server.py"
FilenameOf(api_var_name) ==
    Replace(api_var_name, W_api, <<>>) \o <<"_", "s", "e", "r", "v", "e", "r">> \o DotPy

\* The ModuleSpec generate_server_module returns for a class of the package
ModuleSpecOf(api_var_name, class) ==
    [ module_name    |-> ModuleNameOf(api_var_name),
      filename       |-> FilenameOf(api_var_name),
      api_var_name   |-> api_var_name,
      api_class_name |-> class.name,
      tool_count     |-> generate_server_module(class.attrs).tool_count ]

\* get_api_modules: the classes of the package whose name ends with "Api" and
\* does not start with "_", keyed by camel_to_snake(name)
ApiVarNames(package) ==
    { camel_to_snake(class.name) :
        class \in { c \in package : EndsWith(c.name, <<"A", "p", "i">>) /\ Head(c.name) # "_" } }

\* api_modules[api_var_name]: of the classes with that key the one dir() lists last
ApiClassOf(package, api_var_name) ==
    CHOOSE class \in package :
        /\ camel_to_snake(class.name) = api_var_name
        /\ \A other \in package :
              camel_to_snake(other.name) = api_var_name =>
                  other.name = class.name \/ StrLess(other.name, class.name)

\* servers[module_spec.module_name] = module_spec: a key already present keeps its
\* place and takes the new value.
ServersSet(servers, spec_of_module) ==
    IF \E i \in 1..Len(servers) : servers[i].module_name = spec_of_module.module_name
    THEN [i \in 1..Len(servers) |->
             IF servers[i].module_name = spec_of_module.module_name THEN spec_of_module ELSE servers[i]]
    ELSE Append(servers, spec_of_module)

\* The loop of generate_modular_servers over sorted(api_modules.keys()), from key i on
RECURSIVE GenerateFrom(_, _, _, _)
GenerateFrom(package, keys, i, acc) ==
    IF i > Len(keys) THEN acc
    ELSE LET spec_of_module == ModuleSpecOf(keys[i], ApiClassOf(package, keys[i]))
         IN  GenerateFrom(package, keys, i + 1,
                          [acc EXCEPT !.servers = ServersSet(@, spec_of_module),
                                      !.total_tools = @ + spec_of_module.tool_count])

NotGeneratedModules == [done |-> FALSE, servers |-> <<>>, total_tools |-> 0]

\* generate_modular_servers(base_dir)
generate_modular_servers(package) ==
    GenerateFrom(package, Sorted(ApiVarNames(package)), 1,
                 [done |-> TRUE, servers |-> <<>>, total_tools |-> 0])

(***************************************************************************)
(* Inputs of generate_modular_servers: the client package                  *)
(***************************************************************************)

\* Number of classes of the client package
MaxApiClasses == 2

K_PetApi      == <<"P", "e", "t", "A", "p", "i">>
K_PetApiApi   == <<"P", "e", "t", "A", "p", "i", "A", "p", "i">>
K_StoreApi    == <<"S", "t", "o", "r", "e", "A", "p", "i">>
K_PetStoreApi == <<"P", "e", "t", "S", "t", "o", "r", "e", "A", "p", "i">>
K_Pet2xApi    == <<"P", "e", "t", "2", "x", "A", "p", "i">>
K_Pet2XApi    == <<"P", "e", "t", "2", "X", "A", "p", "i">>
K_ApiClient   == <<"A", "p", "i", "C", "l", "i", "e", "n", "t">>

ClassNames == { K_PetApi, K_PetApiApi, K_StoreApi, K_PetStoreApi, K_Pet2xApi, K_Pet2XApi,
                K_ApiClient }

ClassAttributes ==
    { DirOf({N_get_a}), DirOf({N_get_a, N_post_a}), DirOf({N_attr, N_get_a_with_http_info}) }

ClientClasses == { [name |-> n, attrs |-> a] : n \in ClassNames, a \in ClassAttributes }

\* The packages of at most MaxApiClasses classes, each class name once
Packages ==
    { p \in SUBSET ClientClasses :
        /\ Cardinality(p) <= MaxApiClasses
        /\ \A c1, c2 \in p : c1.name = c2.name => c1 = c2 }

ModularInit ==
    /\ api_package \in Packages
    /\ modular = NotGeneratedModules

ModularIdle ==
    /\ api_package = {}
    /\ modular = NotGeneratedModules

\* One call of generate_modular_servers
GenerateModularServers ==
    /\ ~modular.done
    /\ modular' = generate_modular_servers(api_package)
    /\ UNCHANGED <<api_package, otherThanModular>>

ModularNext ==
    \/ GenerateModularServers

InitNaming == NamingInit /\ ComposeIdle /\ SecurityIdle /\ CliIdle /\ ResourceIdle /\ MetadataIdle /\ RegistryIdle /\ CacheIdle /\ HandlerIdle /\ ModularIdle

SpecNaming == InitNaming /\ [][NamingNext]_vars

InitCompose == NamingIdle /\ ComposeInit /\ SecurityIdle /\ CliIdle /\ ResourceIdle /\ MetadataIdle /\ RegistryIdle /\ CacheIdle /\ HandlerIdle /\ ModularIdle

SpecCompose == InitCompose /\ [][ComposeNext]_vars

InitSecurity == NamingIdle /\ ComposeIdle /\ SecurityInit /\ CliIdle /\ ResourceIdle /\ MetadataIdle /\ RegistryIdle /\ CacheIdle /\ HandlerIdle /\ ModularIdle

SpecSecurity == InitSecurity /\ [][SecurityNext]_vars

InitResource == NamingIdle /\ ComposeIdle /\ SecurityIdle /\ CliIdle /\ ResourceInit /\ MetadataIdle /\ RegistryIdle /\ CacheIdle /\ HandlerIdle /\ ModularIdle

SpecResource == InitResource /\ [][ResourceNext]_vars

InitMetadata == NamingIdle /\ ComposeIdle /\ CliIdle /\ ResourceIdle /\ MetadataInit /\ RegistryIdle /\ CacheIdle /\ HandlerIdle /\ ModularIdle

SpecMetadata == InitMetadata /\ [][MetadataNext]_vars

InitRegistry == NamingIdle /\ ComposeIdle /\ SecurityIdle /\ CliIdle /\ ResourceIdle /\ MetadataIdle /\ RegistryInit /\ CacheIdle /\ HandlerIdle /\ ModularIdle

SpecRegistry == InitRegistry /\ [][RegistryNext]_vars

InitCache == NamingIdle /\ ComposeIdle /\ SecurityIdle /\ CliIdle /\ ResourceIdle /\ MetadataIdle /\ RegistryIdle /\ CacheInit /\ HandlerIdle /\ ModularIdle

SpecCache == InitCache /\ [][CacheNext]_vars

InitCached == NamingIdle /\ ComposeIdle /\ SecurityIdle /\ CliIdle /\ ResourceIdle /\ MetadataIdle /\ RegistryIdle /\ CachedInit /\ HandlerIdle /\ ModularIdle

SpecCached == InitCached /\ [][CachedNext]_vars

InitHandler == NamingIdle /\ ComposeIdle /\ SecurityIdle /\ CliIdle /\ ResourceIdle /\ MetadataIdle /\ RegistryIdle /\ CacheIdle /\ HandlerInit /\ ModularIdle

SpecHandler == InitHandler /\ [][HandlerNext]_vars

InitModular == NamingIdle /\ ComposeIdle /\ SecurityIdle /\ CliIdle /\ ResourceIdle /\ MetadataIdle /\ RegistryIdle /\ CacheIdle /\ HandlerIdle /\ ModularInit

SpecModular == InitModular /\ [][ModularNext]_vars

InitCli == NamingIdle /\ CliInit /\ ResourceIdle /\ MetadataIdle /\ RegistryIdle /\ CacheIdle /\ HandlerIdle /\ ModularIdle

SpecCli == InitCli /\ [][CliNext]_vars


(***************************************************************************)
(* Claims about the naming engine                                          *)
(***************************************************************************)

ToolNamesOf(spec) == [i \in 1..Len(spec.tools) |-> spec.tools[i].tool_name]

HasDuplicateToolName(spec) ==
    \E i, j \in 1..Len(spec.tools) : i # j /\ spec.tools[i].tool_name = spec.tools[j].tool_name

HasOverlongToolName(spec) ==
    \E i \in 1..Len(spec.tools) : Len(spec.tools[i].tool_name) > MAX_TOOL_NAME_LENGTH

\* C1: the tool names generate_server_module produces for the methods of one API
\* class are pairwise distinct.
C1_ToolNamesDistinct ==
    module_spec.generated => ~HasDuplicateToolName(module_spec)

\* C2: every tool name emitted into a module is at most MAX_TOOL_NAME_LENGTH
\* characters long, whatever the method name and the abbreviation table.
C2_ToolNamesWithinLimit ==
    module_spec.generated => ~HasOverlongToolName(module_spec)

\* C3: sanitize_name is idempotent: applied to a name it produced, it returns
\* that name unchanged.
C3_SanitizeIdempotent ==
    renamed.done => renamed.result = renamed.name

\* C8: a module with a duplicate or an over-length tool name is never produced
\* without a report to the operator.
C8_CollisionOrOverflowReported ==
    (module_spec.generated /\ (HasDuplicateToolName(module_spec) \/ HasOverlongToolName(module_spec)))
        => naming_log # <<>>

(***************************************************************************)
(* Claims about the composer and the emitted server                        *)
(***************************************************************************)

\* The authentication wiring present in the emitted source, whether or not the
\* running server would reach it.
AuthWiringEmitted(code) ==
    {w \in { "auth_imports", "auth_middleware_setup", "auth_argparse", "auth_validation",
             "event_store_init", "create_jwt_verifier", "build_authentication_stack" } :
        CASE w = "auth_imports"               -> code.auth_imports
          [] w = "auth_middleware_setup"      -> code.auth_middleware_setup
          [] w = "auth_argparse"              -> code.auth_argparse
          [] w = "auth_validation"            -> code.auth_validation
          [] w = "event_store_init"           -> code.event_store_init
          [] w = "create_jwt_verifier"        -> code.main.create_jwt_verifier
          [] w = "build_authentication_stack" -> code.main.build_authentication_stack}

\* C4: without authentication the composed source holds no authentication wiring
\* at all, in any branch of main().
C4_NoAuthWiringWithoutAuthentication ==
    (composed.done /\ ~composed.raised /\ ~has_authentication(security_config))
        => AuthWiringEmitted(composed) = {}

\* C5: with the import strategy the composer returns a source: every module is
\* copied by an awaited app.import_server, _compose_mcp_servers is async,
\* create_server awaits it and main() runs it through asyncio.run.
C5_ImportStrategyComposes ==
    (composed.done /\ composition_strategy = "import")
        => /\ ~composed.raised
           /\ \A i \in 1..Len(composed.compositions) :
                 composed.compositions[i].call = "import_server" /\ composed.compositions[i].awaited
           /\ {composed.compositions[i].name : i \in 1..Len(composed.compositions)} = ModuleKeys(modules)
           /\ composed.is_async_composition
           /\ composed.create_server_awaits
           /\ composed.main_runs_compose_with_asyncio

\* names holds every key of the modules mapping once, in ascending order.
AscendingOverKeys(names) ==
    /\ {names[i] : i \in 1..Len(names)} = ModuleKeys(modules)
    /\ \A i, j \in 1..Len(names) : i < j => StrLess(names[i], names[j])

\* C9: the import statements, the composition calls and the blocks of
\* _import_subservers_once list the modules in ascending order of module name,
\* whatever the insertion order of the modules mapping.
C9_ComposedInNameOrder ==
    composed.done =>
        /\ AscendingOverKeys([i \in 1..Len(composed.imports) |-> composed.imports[i].alias])
        /\ AscendingOverKeys([i \in 1..Len(composed.compositions) |-> composed.compositions[i].name])
        /\ composed.import_subservers_def.defined =>
              AscendingOverKeys([i \in 1..Len(composed.import_subservers_def.blocks) |->
                                    composed.import_subservers_def.blocks[i].name])

\* Witness of C9: a source was returned for modules inserted out of name order.
C9_Witness ==
    /\ composed.done /\ ~composed.raised
    /\ composed.import_subservers_def.defined
    /\ Len(modules) >= 2
    /\ StrLess(modules[2].module_name, modules[1].module_name)

\* C10: _import_subservers_once attempts the import of every module, in order, also
\* after an earlier import raised; a failing import is logged and never leaves the
\* helper.
C10_EveryImportAttempted ==
    /\ ~server.helper_raised
    /\ server.pc = "helper" =>
          server.attempted = SubSeq(composed.module_names, 1, server.helper_idx - 1)
    /\ (server.helper_runs > 0 /\ server.pc \in {"http_app", "serve_http", "serving"}) =>
          server.attempted = composed.module_names
    /\ \A i \in 1..Len(server.logged) : \E j \in 1..Len(server.attempted) :
          server.logged[i] = server.attempted[j]

\* Witness of C10: the first import raised, and the helper went on to the last one.
C10_Witness ==
    /\ server.pc = "http_app"
    /\ Len(server.attempted) >= 2
    /\ server.logged # <<>>
    /\ server.logged[1] = server.attempted[1]
    /\ server.attempted = composed.module_names

(***************************************************************************)
(* Claims about the security extraction                                    *)
(***************************************************************************)

\* The document the file holds is a mapping that get_security_config gets to read.
ParsesToMapping(file) ==
    /\ file.exists /\ file.readable /\ (file.json \/ file.yaml)
    /\ file.value.type = "dict"

\* C7: get_security_config never raises, and for every file that is missing,
\* unreadable or does not parse to a mapping (a scalar or a list included), and for
\* every document whose components value is null, it returns the default
\* SecurityConfig.
C7_SecurityConfigNeverRaises ==
    security_result.done =>
        /\ ~security_result.raised
        /\ (\/ ~ParsesToMapping(openapi_file)
            \/ DictGet(openapi_file.value, "components", PyDict(<<>>)) = PyNone)
               => security_result.config = DefaultSecurityConfig

(***************************************************************************)
(* Claims about a run of the generator                                     *)
(***************************************************************************)

\* Every artifact of the run is on disk.
AllArtifactsWritten ==
    /\ cli.servers = ServerFilesWritten(modules)
    /\ has_authentication(security_config) => cli.middleware
    /\ cli.main_server

\* Nothing of the run is on disk.
NoArtifactWritten ==
    /\ cli.servers = <<>>
    /\ ~cli.middleware
    /\ ~cli.main_server

\* C6: a run of the generator ends either with every artifact written (every
\* server module, the middleware when authentication is configured, the composed
\* main server) or failed with no artifact left on disk.
C6_RunIsAllOrNothing ==
    /\ cli.pc = "done" => AllArtifactsWritten
    /\ cli.pc = "failed" => NoArtifactWritten

\* The keys of the items of a mapping
KeysOf(items) == {items[i].key : i \in 1..Len(items)}

RecognizedFlowKinds == {"authorizationCode", "implicit", "password", "clientCredentials"}

\* The flows object of the scheme the extracted OAuthConfig names
FlowsOfExtractedScheme ==
    DictGet(DictGet(PyDict(security_result.config.schemes),
                    security_result.config.oauth_config.scheme_name, PyDict(<<>>)),
            "flows", PyDict(<<>>))

\* C11: for an oauth2 scheme the keys of OAuthConfig.flows are exactly the flow
\* kinds of the scheme's flows object that are among the four recognized ones, and
\* all_scopes is the union of the scopes of exactly those flows.
C11_FlowsAreTheRecognizedOnes ==
    (security_result.done /\ ~security_result.raised
        /\ security_result.config.oauth_config.present) =>
        LET flows == FlowsOfExtractedScheme
            kept  == KeysOf(flows.items) \cap RecognizedFlowKinds
        IN  /\ KeysOf(security_result.config.oauth_config.flows) = kept
            /\ KeysOf(security_result.config.oauth_config.all_scopes) =
                   UNION { KeysOf(DictGet(DictGet(flows, k, PyDict(<<>>)), "scopes", PyDict(<<>>)).items)
                           : k \in kept }

\* An oauth2 scheme with recognized flows, a flow kind that is not recognized and a
\* flow without scopes was extracted.
C11_Witness ==
    /\ security_result.done /\ ~security_result.raised
    /\ security_result.config.oauth_config.present
    /\ KeysOf(FlowsOfExtractedScheme.items) = {"deviceCode", "password", "implicit"}
    /\ KeysOf(security_result.config.oauth_config.flows) = {"password", "implicit"}
    /\ KeysOf(security_result.config.oauth_config.all_scopes) = {"read", "write"}

\* Every order of the items of a mapping
Reorderings(items) ==
    { [i \in 1..Len(items) |-> items[p[i]]]
      : p \in { q \in [1..Len(items) -> 1..Len(items)] :
                  \A i, j \in 1..Len(items) : i # j => q[i] # q[j] } }

\* The securitySchemes items of the document a file holds (none when the document
\* has no such mapping)
SchemesOf(file) ==
    IF ParsesToMapping(file)
       /\ DictGet(file.value, "components", PyNone).type = "dict"
       /\ DictGet(DictGet(file.value, "components", PyNone), "securitySchemes", PyNone).type = "dict"
    THEN DictGet(DictGet(file.value, "components", PyNone), "securitySchemes", PyNone).items
    ELSE <<>>

\* The file whose document differs only in the order of its security schemes
WithSchemes(file, items) ==
    [file EXCEPT !.value =
        PyDict(ItemsUpdate(file.value.items,
            <<KV("components",
                 PyDict(ItemsUpdate(DictGet(file.value, "components", PyNone).items,
                                    <<KV("securitySchemes", PyDict(items))>>)))>>))]

\* SecurityConfig.__eq__: field by field, the mappings compared as Python compares
\* dicts, without regard to order
SameSecurityConfig(a, b) ==
    /\ {a.schemes[i] : i \in 1..Len(a.schemes)} = {b.schemes[i] : i \in 1..Len(b.schemes)}
    /\ a.global_security = b.global_security
    /\ a.default_scopes = b.default_scopes
    /\ a.oauth_config.present = b.oauth_config.present
    /\ a.oauth_config.scheme_name = b.oauth_config.scheme_name
    /\ {a.oauth_config.flows[i] : i \in 1..Len(a.oauth_config.flows)}
         = {b.oauth_config.flows[i] : i \in 1..Len(b.oauth_config.flows)}
    /\ {a.oauth_config.all_scopes[i] : i \in 1..Len(a.oauth_config.all_scopes)}
         = {b.oauth_config.all_scopes[i] : i \in 1..Len(b.oauth_config.all_scopes)}
    /\ a.bearer_format = b.bearer_format
    /\ a.jwks_uri = b.jwks_uri
    /\ a.issuer = b.issuer
    /\ a.audience = b.audience

\* C17: two documents that differ only in the order of their security schemes
\* yield the same SecurityConfig.
C17_SchemeOrderIndependent ==
    (security_result.done /\ ~security_result.raised) =>
        \A items \in Reorderings(SchemesOf(openapi_file)) :
            SchemesOf(openapi_file) # <<>> =>
                SameSecurityConfig(get_security_config(WithSchemes(openapi_file, items)).config,
                                   security_result.config)

(***************************************************************************)
(* Claims about resource templates                                         *)
(***************************************************************************)

\* C12: generate_resource_for_endpoint returns None exactly when the endpoint has
\* no path parameters and no query parameters; every endpoint with at least one
\* parameter yields a ResourceSpec.
C12_NoneIffNoParameters ==
    resource_spec.done =>
        (resource_spec.is_none <=>
            (resource_endpoint.path_params = <<>> /\ resource_endpoint.query_params = <<>>))

\* The parameterless endpoint /health was rejected.
C12_Witness ==
    /\ resource_spec.done /\ resource_spec.is_none
    /\ resource_endpoint.path = P_health
    /\ resource_endpoint.path_params = <<>> /\ resource_endpoint.query_params = <<>>

\* C13: every query parameter of a ResourceSpec has its required flag false,
\* whatever the flag of the parameter in the source document.
C13_QueryParamsNotRequired ==
    (resource_spec.done /\ ~resource_spec.is_none) =>
        \A i \in 1..Len(resource_spec.spec.query_params) :
            ~resource_spec.spec.query_params[i].required

(***************************************************************************)
(* Claims about the API metadata                                           *)
(***************************************************************************)

\* C14: get_api_metadata never raises, and when the API description document is
\* unreadable or malformed (it does not parse, or not to a mapping) it returns the
\* default ApiMetadata, whatever the client package has as docstring or version.
C14_MetadataDefaultOnMalformed ==
    api_metadata.done =>
        /\ ~api_metadata.raised
        /\ (openapi_file.exists /\ ~ParsesToMapping(openapi_file))
               => api_metadata.metadata = DefaultApiMetadata

(***************************************************************************)
(* Claims about verb remapping and overrides                               *)
(***************************************************************************)

\* The verb of a name of the form <verb>_<rest> with a non-empty rest, <<>> for a
\* name of another form
VerbPrefixOf(name) ==
    IF \E v \in {W_get, W_post, W_put, W_patch, W_delete} :
           Len(name) > Len(v) + 1 /\ SubSeq(name, 1, Len(v) + 1) = v \o <<"_">>
    THEN CHOOSE v \in {W_get, W_post, W_put, W_patch, W_delete} :
           Len(name) > Len(v) + 1 /\ SubSeq(name, 1, Len(v) + 1) = v \o <<"_">>
    ELSE <<>>

\* <semantic_verb>_<rest>, lower-cased, for a name of the form <verb>_<rest>
Reassembled(name) ==
    LET v == VerbPrefixOf(name)
        rest == SubSeq(name, Len(v) + 2, Len(name))
        semantic_verb ==
            CASE v = W_get /\ ~Contains(name, <<"_", "b", "y", "_">>) -> W_list
              [] v = W_get /\ Contains(name, <<"_", "b", "y", "_">>)  -> W_get
              [] v = W_post   -> W_create
              [] v = W_put    -> W_replace
              [] v = W_patch  -> W_update
              [] v = W_delete -> W_delete
    IN  Lower(semantic_verb \o <<"_">> \o rest)

\* No lower-case letter or digit of the name is directly followed by an upper-case
\* letter.
NoCaseBoundary(name) ==
    \A i \in 1..(Len(name) - 1) : ~((IsLower(name[i]) \/ IsDigit(name[i])) /\ IsUpper(name[i + 1]))

\* The tool was produced from a method <verb>_<rest> that has no override entry.
IsRemappedTool(tool) ==
    /\ VerbPrefixOf(tool.method_name) # <<>>
    /\ \A i \in 1..Len(TOOL_NAME_OVERRIDES) : TOOL_NAME_OVERRIDES[i][1] # tool.method_name

C16_OverrideVerbatim ==
    module_spec.generated =>
        \A i \in 1..Len(module_spec.tools) :
            \A k \in 1..Len(TOOL_NAME_OVERRIDES) :
                TOOL_NAME_OVERRIDES[k][1] = module_spec.tools[i].method_name =>
                    module_spec.tools[i].tool_name = TOOL_NAME_OVERRIDES[k][2]

\* Overrides that the remaining steps would have changed were returned verbatim:
\* post_a as Get_A (no remapping, no lower-casing), and a 65-character name with
\* an abbreviation table that applies to it.
C16_Witness ==
    /\ module_spec.generated
    /\ TOOL_NAME_ABBREVIATIONS # <<>>
    /\ \E i, j \in 1..Len(module_spec.tools) :
          /\ module_spec.tools[i].method_name = N_post_a
          /\ module_spec.tools[i].tool_name = N_Get_A
          /\ module_spec.tools[j].method_name = N_long
          /\ module_spec.tools[j].tool_name = N_long

(***************************************************************************)
(* Claims about the server registry                                        *)
(***************************************************************************)

\* C18: after register_server succeeded for a server name, the registry run-mcp
\* loads contains that name, for every setting of MCP_REGISTRY_PATH and
\* XDG_DATA_HOME; after unregister_server succeeded it no longer does.
C18_RegisteredServerCanBeRun ==
    /\ (registry_op.op = "add" /\ registry_op.exit_code = 0)
          => registry_op.server_name \in DOMAIN load_local_registry(registry_files, environ)
    /\ (registry_op.op = "remove" /\ registry_op.exit_code = 0)
          => registry_op.server_name \notin DOMAIN load_local_registry(registry_files, environ)

\* C19: a get returns the data of the most recent set with the same tool name and
\* arguments if that entry's TTL has not elapsed and neither an invalidate of the
\* same tool name and arguments nor a clear_all happened since, and None
\* otherwise; a get that finds an expired entry deletes it from the storage.
C19_GetReturnsMostRecentSet ==
    cache_result.op = "get" =>
        LET recent == cache_calls[<<cache_result.tool_name, cache_result.args>>]
            in_force == recent.has /\ cache_result.at <= recent.set_at + recent.ttl
        IN  /\ cache_result.value = IF in_force THEN recent.data ELSE PyNone
            /\ cache_result.found_expired =>
                   generate_cache_key(cache_result.tool_name, cache_result.args)
                       \notin DOMAIN cache_store

\* C20: a call of a function wrapped with cached(ttl) that follows a completed
\* call with the same arguments before the TTL has elapsed returns the function's
\* result without executing the function, whatever the function returns; any
\* other call executes the function.
C20_CachedCallDoesNotExecute ==
    wrapper_call.done =>
        /\ wrapper_call.result = fn_return
        /\ wrapper_call.cached_before => ~wrapper_call.executed
        /\ ~wrapper_call.cached_before => wrapper_call.executed

\* C21: in a server generated with authentication, when the transport is http,
\* --validate-tokens is set and create_jwt_verifier() returned a verifier, the
\* HTTP application that is served was built with the middleware stack of
\* build_authentication_stack.
C21_ServedAppEnforcesTokens ==
    ( /\ composed.auth_argparse
      /\ server.pc \in {"serve_http", "serving"}
      /\ server.transport = "http"
      /\ server.has_validate_tokens /\ server.validate_tokens
      /\ server.jwt_verifier = "verifier" )
    => server.http_app.middleware

ImportStepInOrder ==
    /\ server.helper_runs <= 1
    /\ server.helper_runs = 1 =>
          /\ server.transport = "http"
          /\ server.pc \notin {"not_started", "compose"}
          /\ server.composed_names = module_names_of(modules)
    /\ server.pc = "helper" => ~server.http_app.built
    /\ ~server.http_app.built => server.pc # "serving" \/ server.transport = "stdio"
    /\ server.transport = "stdio" => server.helper_runs = 0 /\ server.attempted = <<>>

\* C22: with the mount strategy _import_subservers_once runs only under the http
\* transport, at most once per start, after _compose_mcp_servers() and before
\* the HTTP app is built and served; under stdio it never runs; and a start in
\* which the step ran, failed or not, can always go on until it serves.
C22_ImportStepOnceUnderHttp ==
    composition_strategy = "mount" =>
        /\ ImportStepInOrder
        /\ (server.helper_runs = 1 /\ server.pc # "serving") => ENABLED ComposeNext

C22_Witness ==
    /\ composition_strategy = "mount"
    /\ server.transport = "http"
    /\ server.helper_runs = 1
    /\ server.logged # <<>>
    /\ server.pc = "serving"

\* The text the claim gives for a status: the fixed text for 401, 403, 404 and
\* 500, the generic status/reason text for every other status
ClaimedApiErrorText(status, reason) ==
    CASE status = "401" -> <<"Authentication required. User token invalid or missing.">>
      [] status = "403" -> <<"Permission denied. Your role does not allow this action.">>
      [] status = "404" -> <<"Resource not found.">>
      [] status = "500" -> <<"Backend server error.">>
      [] OTHER -> <<"API error (status ", status, "): ", reason>>

\* C23: a tool function returns its result only when no exception was raised in
\* its body; an ApiException leaves it as "API Error: <text> (status: <status>)",
\* every other exception as "Unexpected error: <message>", and the exception
\* raised for an ApiException is not wrapped again as an unexpected error.
C23_ToolErrorsReRaised ==
    (handler_kind = "tool" /\ handler.pc = "done") =>
        /\ handler.returned <=> handler.caught = NoException
        /\ handler.returned <=> handler.raised = NoException
        /\ handler.caught.cls = "ApiException" =>
              /\ handler.raised.message =
                    <<"API Error: ">>
                    \o ClaimedApiErrorText(handler.caught.status, handler.caught.reason)
                    \o <<" (status: ", handler.caught.status, ")">>
              /\ handler.raised.message[1] # "Unexpected error: "
        /\ handler.caught.cls \notin {"ApiException", "none"} =>
              handler.raised.message = <<"Unexpected error: ">> \o handler.caught.message

C23_Witness ==
    /\ handler_kind = "tool"
    /\ handler.pc = "done"
    /\ handler.caught = ApiException("404", "reason")
    /\ handler.raised # NoException

\* C24: a tool or resource function invokes the API operation only after it read
\* a non-empty client from the context state; when the state holds none, the
\* function ends by raising and the operation was not invoked.
C24_InvokedOnlyWithClient ==
    /\ handler.invoked > 0 => handler.client_read /\ Truthy(ctx_state)
    /\ (~Truthy(ctx_state) /\ handler.pc = "done") =>
          /\ handler.invoked = 0
          /\ ~handler.returned
          /\ handler.raised # NoException

C24_Witness ==
    /\ handler_kind = "resource"
    /\ handler.pc = "done"
    /\ handler.client_read
    /\ handler.invoked = 1
    /\ handler.returned

\* The rule the claim gives for a response, the first that matches
ClaimedNormalization(r) ==
    CASE r.cls = "NoneType" -> Result("None", <<>>)
      [] r.cls # "NoneType" /\ r.to_dict = "method" -> Result("to_dict", <<>>)
      [] r.to_dict # "method" /\ r.cls = "list" ->
            Result("list", [i \in 1..Len(r.items) |->
                               [id |-> r.items[i].id,
                                how |-> IF r.items[i].to_dict = "method" THEN "to_dict"
                                        ELSE "unchanged"]])
      [] r.to_dict # "method" /\ r.cls = "tuple" ->
            Result("list", [i \in 1..Len(r.items) |-> [id |-> r.items[i].id, how |-> "unchanged"]])
      [] r.to_dict # "method" /\ r.cls \in {"dict", "str", "int", "float", "bool"} ->
            Result("unchanged", <<>>)
      [] r.to_dict # "method" /\ r.cls = "object" /\ ~r.has_dict -> Result("unchanged", <<>>)
      [] r.to_dict # "method" /\ r.cls = "object" /\ r.has_dict /\ ~r.dict_raises ->
            Result("dict", <<>>)
      [] r.to_dict # "method" /\ r.cls = "object" /\ r.has_dict /\ r.dict_raises ->
            Result("str", <<>>)

\* C26: for every response of the API operation the tool function returns, and
\* the result is the one of the first rule that matches the response.
C26_NormalizationByFirstRule ==
    (handler_kind = "tool" /\ handler.pc = "done" /\ handler.invoked = 1 /\ ~api_behaviour.raises) =>
        /\ handler.returned
        /\ handler.result = ClaimedNormalization(handler.response)

C26_Witness ==
    /\ handler_kind = "tool"
    /\ handler.returned
    /\ handler.response.cls = "list"
    /\ Len(handler.response.items) = 2
    /\ handler.response.items[1].to_dict = "method"
    /\ handler.response.items[2].to_dict = "attribute"

\* The name after the entries 1..k of the abbreviation table were applied in table
\* order, each to every occurrence of its long form
RECURSIVE AppliedInOrder(_, _)
AppliedInOrder(name, k) ==
    IF k = 0 THEN name
    ELSE Replace(AppliedInOrder(name, k - 1),
                 TOOL_NAME_ABBREVIATIONS[k][1], TOOL_NAME_ABBREVIATIONS[k][2])

\* The entries after which the name fits
SufficingEntries(name) ==
    {k \in 1..Len(TOOL_NAME_ABBREVIATIONS) : Len(AppliedInOrder(name, k)) <= MAX_TOOL_NAME_LENGTH}

\* What the claim says of a name that reaches the abbreviation step
ClaimedAbbreviation(name) ==
    IF Len(name) <= MAX_TOOL_NAME_LENGTH THEN name
    ELSE IF SufficingEntries(name) = {} THEN AppliedInOrder(name, Len(TOOL_NAME_ABBREVIATIONS))
    ELSE AppliedInOrder(name, CHOOSE k \in SufficingEntries(name) :
                                  \A j \in SufficingEntries(name) : k <= j)

\* The verb-mapped snake_case name of a method: what reaches the abbreviation step
\* when the method has no override
SnakeName(method_name) == camel_to_snake(MapVerb(method_name))

\* C27: sanitize_name returns a name for every method; a snake_case name of at
\* most MAX_TOOL_NAME_LENGTH characters is returned without abbreviation, and for
\* a longer one the table entries are applied in table order up to the first
\* that makes it fit, or all of them when none does.
C27_AbbreviationOnlyWhenTooLong ==
    module_spec.generated =>
        \A i \in 1..Len(module_spec.tools) :
            ~HasOverride(module_spec.tools[i].method_name) =>
                module_spec.tools[i].tool_name =
                    ClaimedAbbreviation(SnakeName(module_spec.tools[i].method_name))

C27_Witness ==
    /\ module_spec.generated
    /\ Len(TOOL_NAME_ABBREVIATIONS) = 2
    /\ \E i \in 1..Len(module_spec.tools) :
          LET m == module_spec.tools[i]
          IN  /\ ~HasOverride(m.method_name)
              /\ Len(SnakeName(m.method_name)) > MAX_TOOL_NAME_LENGTH
              /\ m.tool_name # SnakeName(m.method_name)
              /\ Len(m.tool_name) <= MAX_TOOL_NAME_LENGTH

\* The scopes named by the root-level security requirements of the document read
RootSecurity == DictGet(load_openapi_spec(openapi_file), "security", PyList(<<>>))

RootScopes ==
    { scope \in { S_read, S_write, S_admin, S_backend_read } :
        \E i \in 1..Len(RootSecurity.items) :
           \E j \in 1..Len(RootSecurity.items[i].value.items) :
              \E k \in 1..Len(RootSecurity.items[i].value.items[j].value.items) :
                 RootSecurity.items[i].value.items[j].value.items[k].value.str = scope }

\* C28: the SecurityConfig extracted from a document with at least one security
\* scheme has as default_scopes the scopes of the root-level security requirements,
\* each once, in sorted order, and ["backend:read"] when there is none.
C28_DefaultScopesSortedUnion ==
    (security_result.done /\ ~security_result.raised /\ security_result.config.schemes # <<>>) =>
        LET default_scopes == security_result.config.default_scopes
        IN  IF RootScopes = {} THEN default_scopes = <<S_backend_read>>
            ELSE /\ {default_scopes[i] : i \in 1..Len(default_scopes)} = RootScopes
                 /\ \A i, j \in 1..Len(default_scopes) :
                       i < j => StrLess(default_scopes[i], default_scopes[j])

C28_Witness ==
    /\ security_result.done /\ ~security_result.raised
    /\ security_result.config.schemes # <<>>
    /\ Len(RootSecurity.items) = 2
    /\ security_result.config.default_scopes = <<S_admin, S_read, S_write>>

\* A path segment that is a {parameter}
IsParameterSegment(seg) == seg # <<>> /\ Head(seg) = "{" /\ seg[Len(seg)] = "}"

\* The path segments that are not empty and no {parameter}, in path order
NamedSegments(path) ==
    LET segs == SplitSlash(path)
    IN  SelectSeq(segs, LAMBDA seg : seg # <<>> /\ ~IsParameterSegment(seg))

\* The name the claim gives the resource of an endpoint
ClaimedResourceName(endpoint) ==
    IF NamedSegments(endpoint.path) # <<>>
    THEN NamedSegments(endpoint.path)[Len(NamedSegments(endpoint.path))]
    ELSE Lower(Replace(Replace(endpoint.operation_id, W_get, <<>>), Underscore, <<"-">>))

\* {?q1,...,qn} for n >= 1 names, nothing for none
RECURSIVE CommaSeparated(_, _)
CommaSeparated(params, i) ==
    IF i > Len(params) THEN <<>>
    ELSE (IF i > 1 THEN <<",">> ELSE <<>>) \o params[i].name \o CommaSeparated(params, i + 1)

ClaimedQuerySuffix(params) ==
    IF params = <<>> THEN <<>> ELSE <<"{", "?">> \o CommaSeparated(params, 1) \o <<"}">>

\* The path without its leading slash
WithoutLeadingSlash(path) == IF path # <<>> /\ Head(path) = "/" THEN Tail(path) ELSE path

ExposedAttributes ==
    SelectSeq(api_class,
              LAMBDA attr : /\ attr.callable
                            /\ Head(attr.name) # "_"
                            /\ ~Contains(attr.name, W_with_http_info)
                            /\ ~Contains(attr.name, W_without_preload))

\* C25: generate_server_module emits one tool for every callable attribute whose
\* name does not start with an underscore and contains neither "with_http_info"
\* nor "without_preload", none for any other attribute, and tool_count is the
\* number of tools emitted.
C25_OneToolPerExposedMethod ==
    module_spec.generated =>
        /\ [i \in 1..Len(module_spec.tools) |-> module_spec.tools[i].method_name]
              = [i \in 1..Len(ExposedAttributes) |-> ExposedAttributes[i].name]
        /\ module_spec.tool_count = Len(module_spec.tools)

C25_Witness ==
    /\ module_spec.generated
    /\ Len(api_class) = 2
    /\ \E i \in 1..2 : api_class[i].name = N_get_a_without_preload
    /\ module_spec.tool_count = 1

\* The API classes get_api_modules discovers in the package
DiscoveredApiClasses ==
    { class \in api_package : EndsWith(class.name, <<"A", "p", "i">>) /\ Head(class.name) # "_" }

\* C30: generate_modular_servers returns one ModuleSpec per discovered API class,
\* and the total tool count it returns is the sum of tool_count over the returned
\* modules, the count the composed server reports.
C30_OneModulePerClassAndTotal ==
    modular.done =>
        /\ Len(modular.servers) = Cardinality(DiscoveredApiClasses)
        /\ modular.total_tools = SumToolCount(modular.servers, 1)

====
